---- MODULE Spec2Model ----
(***************************************************************************)
(* minitorch: a strided numeric buffer (MiniBuffer), the Tensor graph node *)
(* built on it, and the reverse-mode autograd engine of Tensor.backward.   *)
(*                                                                         *)
(* Floating-point values are modelled by integers: every operation used    *)
(* here (negate, add, subtract, multiply) is exact on them.  Python's      *)
(* 0-based positions are kept for offsets into `data'; axes and sequence   *)
(* indices are 1-based as in TLA+.                                         *)
(***************************************************************************)
EXTENDS Integers, Sequences, FiniteSets, TLC

VARIABLES tensors, pc, bw, result

vars == <<tensors, pc, bw, result>>

\* ------------------------------------------------------------------ bounds
\* Largest number of Tensor objects alive in the modelled heap.
MaxTensors == 3
\* Largest size of one axis of the shapes fed to _broadcasted.
MaxDim == 3
\* the most Tensors detach() may create in one behaviour
MaxDetached == 1
\* Maximum supported rank of a Tensor.
MaxRank == 4
MaxMatDim == 2
TopoTensors == 4
MaxChain == 2
SharedTensors == 3
\* SpecInPlace: Tensors alive
InPlaceTensors == 3
\* SpecMade: Tensor objects in the heap
MadeTensors == 3

\* ----------------------------------------------------------------- helpers
\* Python's None.
NoneVal == [none |-> TRUE]

RECURSIVE Prod(_)
Prod(s) == IF s = <<>> THEN 1 ELSE Head(s) * Prod(Tail(s))

RECURSIVE Concat(_)
Concat(ss) == IF ss = <<>> THEN <<>> ELSE Head(ss) \o Concat(Tail(ss))

\* a faulty variant of Reverse that keeps the order
not_reversed(s) == s

Reverse(s) == [i \in 1..Len(s) |-> s[Len(s) + 1 - i]]

\* a faulty variant of Max2 that takes the smaller size
Max2_smaller(a, b) == IF a <= b THEN a ELSE b

Max2(a, b) == IF a >= b THEN a ELSE b

\* F(v) with v evaluated once: a local variable of the code
Bind(v, F(_)) == CHOOSE r \in {F(a) : a \in {v}} : TRUE

\* --------------------------------------------------------------- MiniBuffer
UnaryOp == {"NEG"}
BinaryOp == {"ADD", "SUB", "MUL", "DIV", "POW", "MAX"}
ReshapeOp == {"PAD", "SHRINK"}

\* a faulty variant of get_strides_from_shape that starts each product one
\* axis too late
get_strides_skipping_one(shape) ==
    [dim_idx \in 1..Len(shape) |->
        IF dim_idx >= Len(shape) - 1 THEN 1
        ELSE Prod(SubSeq(shape, dim_idx + 2, Len(shape)))]

get_strides_from_shape(shape) ==
    [dim_idx \in 1..Len(shape) |->
        IF dim_idx = Len(shape) THEN 1
        ELSE Prod(SubSeq(shape, dim_idx + 1, Len(shape)))]

\* MiniBuffer(data, shape, strides)
MiniBufferS(data, shape, strides) ==
    [data |-> data, shape |-> shape, strides |-> strides]

\* MiniBuffer(data, shape): strides default to the row-major ones
MiniBuffer(data, shape) ==
    MiniBufferS(data, shape, get_strides_from_shape(shape))

apply_op_unary(op, x) == 0 - x

apply_op_binary(op, x, y) ==
    CASE op = "ADD" -> x + y
      [] op = "SUB" -> x - y
      [] op = "MUL" -> x * y
      [] op = "DIV" -> x \div y
      [] op = "POW" -> IF y = 0 THEN 1 ELSE x ^ y
      [] op = "MAX" -> Max2(x, y)

RECURSIVE traverse_dims_and_apply_op(_, _, _, _)
\* a faulty variant of traverse_dims_and_apply_op that walks the second
\* operand with the strides of the first
traverse_dims_and_apply_op_one_stride(depth_idx, current_positions, op, operands) ==
    LET x == operands[1]
        n == x.shape[depth_idx]
    IN  IF depth_idx = Len(x.shape)
        THEN [val_idx \in 1..n |->
                LET x_val_pos == current_positions[1]
                                   + (val_idx - 1) * x.strides[depth_idx]
                IN  IF op \in UnaryOp
                    THEN apply_op_unary(op, x.data[x_val_pos + 1])
                    ELSE apply_op_binary(op, x.data[x_val_pos + 1],
                                         operands[2].data[x_val_pos + 1])]
        ELSE Concat([dim_idx \in 1..n |->
                LET x_pos == current_positions[1]
                               + (dim_idx - 1) * x.strides[depth_idx]
                IN  traverse_dims_and_apply_op(depth_idx + 1, <<x_pos, x_pos>>,
                                               op, operands)])

traverse_dims_and_apply_op(depth_idx, current_positions, op, operands) ==
    LET x == operands[1]
        n == x.shape[depth_idx]
    IN  IF depth_idx = Len(x.shape)
        THEN [val_idx \in 1..n |->
                LET x_val_pos == current_positions[1]
                                   + (val_idx - 1) * x.strides[depth_idx]
                IN  IF op \in UnaryOp
                    THEN apply_op_unary(op, x.data[x_val_pos + 1])
                    ELSE LET y_val_pos == current_positions[2]
                                + (val_idx - 1) * operands[2].strides[depth_idx]
                         IN  apply_op_binary(op, x.data[x_val_pos + 1],
                                             operands[2].data[y_val_pos + 1])]
        ELSE Concat([dim_idx \in 1..n |->
                LET x_pos == current_positions[1]
                               + (dim_idx - 1) * x.strides[depth_idx]
                    next_pos == IF op \in BinaryOp
                                THEN <<x_pos, current_positions[2]
                                        + (dim_idx - 1) * operands[2].strides[depth_idx]>>
                                ELSE <<x_pos>>
                IN  traverse_dims_and_apply_op(depth_idx + 1, next_pos, op, operands)])

\* the inner loop of _traverse_dims_and_sum_along_last: sum += x.data[val_pos]
RECURSIVE sum_run(_, _, _, _)
sum_run(depth_idx, current_position, x, val_idx) ==
    IF val_idx > x.shape[depth_idx] THEN 0
    ELSE x.data[current_position + (val_idx - 1) * x.strides[depth_idx] + 1]
         + sum_run(depth_idx, current_position, x, val_idx + 1)

RECURSIVE traverse_dims_and_sum_along_last(_, _, _)
traverse_dims_and_sum_along_last(depth_idx, current_position, x) ==
    IF depth_idx = Len(x.shape)
    THEN <<sum_run(depth_idx, current_position, x, 1)>>
    ELSE Concat([dim_idx \in 1..x.shape[depth_idx] |->
            traverse_dims_and_sum_along_last(
                depth_idx + 1,
                current_position + (dim_idx - 1) * x.strides[depth_idx],
                x)])

\* _pad: one run of the last axis of new_shape
pad_run(depth_idx, current_position, new_shape, x) ==
    [val_idx \in 1..new_shape[depth_idx] |->
        IF val_idx - 1 < x.shape[depth_idx]
           /\ current_position + (val_idx - 1) * x.strides[depth_idx] < Len(x.data)
        THEN x.data[current_position + (val_idx - 1) * x.strides[depth_idx] + 1]
        ELSE 0]

\* _shrink: one run of the last axis of new_shape
shrink_run(depth_idx, current_position, new_shape, x) ==
    [val_idx \in 1..new_shape[depth_idx] |->
        x.data[current_position + (val_idx - 1) * x.strides[depth_idx] + 1]]

RECURSIVE traverse_dims_and_apply_reshape_op(_, _, _, _, _)
traverse_dims_and_apply_reshape_op(depth_idx, current_position, op, new_shape, x) ==
    IF depth_idx = Len(new_shape)
    THEN IF op = "PAD" THEN pad_run(depth_idx, current_position, new_shape, x)
         ELSE shrink_run(depth_idx, current_position, new_shape, x)
    ELSE Concat([dim_idx \in 1..new_shape[depth_idx] |->
            traverse_dims_and_apply_reshape_op(
                depth_idx + 1,
                current_position + (dim_idx - 1) * x.strides[depth_idx],
                op, new_shape, x)])

pad(self, new_shape) ==
    MiniBuffer(traverse_dims_and_apply_reshape_op(1, 0, "PAD", new_shape, self),
               new_shape)

fill(shape, value) == MiniBuffer([i \in 1..Prod(shape) |-> value], shape)

full_like(input, value) == fill(input.shape, value)

neg(self) ==
    MiniBuffer(traverse_dims_and_apply_op(1, <<0>>, "NEG", <<self>>), self.shape)

add(self, other) ==
    MiniBuffer(traverse_dims_and_apply_op(1, <<0, 0>>, "ADD", <<self, other>>),
               self.shape)

sub(self, other) ==
    MiniBuffer(traverse_dims_and_apply_op(1, <<0, 0>>, "SUB", <<self, other>>),
               self.shape)

mul(self, other) ==
    MiniBuffer(traverse_dims_and_apply_op(1, <<0, 0>>, "MUL", <<self, other>>),
               self.shape)

\* x / y and x ** y of floats, taken where the result is a whole number
div(self, other) ==
    MiniBuffer(traverse_dims_and_apply_op(1, <<0, 0>>, "DIV", <<self, other>>),
               self.shape)

pow(self, other) ==
    MiniBuffer(traverse_dims_and_apply_op(1, <<0, 0>>, "POW", <<self, other>>),
               self.shape)

reshape(self, new_shape) == MiniBuffer(self.data, new_shape)

\* a faulty variant of permute that returns the strided view as it is
permute_view(self, order) ==
    MiniBufferS(self.data, [i \in 1..Len(order) |-> self.shape[order[i]]],
                [i \in 1..Len(order) |-> self.strides[order[i]]])

permute(self, order) ==
    LET new_dims == [i \in 1..Len(order) |-> self.shape[order[i]]]
        new_strides == [i \in 1..Len(order) |-> self.strides[order[i]]]
    IN  Bind(MiniBufferS(self.data, new_dims, new_strides),
             LAMBDA res : add(res, full_like(res, 0)))

\* a faulty variant of expand that returns the stride-rewritten buffer itself
expand_view(self, axis, expanded_size) ==
    MiniBufferS(Concat([k \in 1..expanded_size |-> self.data]),
                [self.shape EXCEPT ![axis] = expanded_size],
                [self.strides EXCEPT ![axis] =
                    Prod([i \in 1..Len(self.shape) |->
                            IF i = axis THEN 1 ELSE self.shape[i]])])

\* a faulty variant of expand that gives the repeated data the row-major
\* strides of the new shape
expand_tiled(self, axis, expanded_size) ==
    MiniBuffer(Concat([k \in 1..expanded_size |-> self.data]),
               [self.shape EXCEPT ![axis] = expanded_size])

\* expand along `axis' (1-based) to `expanded_size'
expand(self, axis, expanded_size) ==
    LET out_data == Concat([k \in 1..expanded_size |-> self.data])
        out_shape == [self.shape EXCEPT ![axis] = expanded_size]
        corrected_input_shape ==
            [i \in 1..Len(self.shape) |-> IF i = axis THEN 1 ELSE self.shape[i]]
        out_strides == [self.strides EXCEPT ![axis] = Prod(corrected_input_shape)]
    IN  Bind(MiniBufferS(out_data, out_shape, out_strides),
             LAMBDA res : add(res, full_like(res, 0)))

\* a faulty variant of sum that sums the last axis whatever `axis' is
sum_last_axis(self, axis) ==
    MiniBuffer(traverse_dims_and_sum_along_last(1, 0, self),
               [self.shape EXCEPT ![Len(self.shape)] = 1])

\* sum along `axis' (1-based)
sum(self, axis) ==
    LET r == Len(self.shape)
        out_shape0 == [d \in 1..r |-> IF d = axis THEN 1 ELSE self.shape[d]]
        dim_order == [i \in 1..r |-> IF i = axis THEN r ELSE IF i = r THEN axis ELSE i]
        out_shape1 == [i \in 1..r |-> out_shape0[dim_order[i]]]
    IN  Bind(permute(self, dim_order), LAMBDA x1 :
        Bind(permute(MiniBuffer(traverse_dims_and_sum_along_last(1, 0, x1),
                                out_shape1),
                     dim_order),
             LAMBDA res : add(res, full_like(res, 0))))

is_scalar(self) == Len(self.shape) = 1

\* a faulty variant of tril_block whose cursor starts at `diagonal'
tril_block_late(depth_idx, current_position, diagonal, x) ==
    Concat([row_idx \in 1..x.shape[depth_idx] |->
        [val_idx \in 1..x.shape[depth_idx + 1] |->
            IF val_idx - 1 < diagonal + (row_idx - 1)
            THEN x.data[current_position + (row_idx - 1) * x.strides[depth_idx]
                        + (val_idx - 1) * x.strides[depth_idx + 1] + 1]
            ELSE 0]])

\* MiniBuffer._tril: the rows of one trailing 2D block; tril_cursor starts
\* at 1 + diagonal and grows by one per row
tril_block(depth_idx, current_position, diagonal, x) ==
    Concat([row_idx \in 1..x.shape[depth_idx] |->
        [val_idx \in 1..x.shape[depth_idx + 1] |->
            IF val_idx - 1 < 1 + diagonal + (row_idx - 1)
            THEN x.data[current_position + (row_idx - 1) * x.strides[depth_idx]
                        + (val_idx - 1) * x.strides[depth_idx + 1] + 1]
            ELSE 0]])

RECURSIVE traverse_dims_and_tril(_, _, _, _)
traverse_dims_and_tril(depth_idx, current_position, diagonal, x) ==
    IF depth_idx = Len(x.shape) - 1
    THEN tril_block(depth_idx, current_position, diagonal, x)
    ELSE Concat([dim_idx \in 1..x.shape[depth_idx] |->
            traverse_dims_and_tril(
                depth_idx + 1,
                current_position + (dim_idx - 1) * x.strides[depth_idx],
                diagonal, x)])

\* MiniBuffer.tril(input, diagonal)
tril(input, diagonal) ==
    MiniBuffer(traverse_dims_and_tril(1, 0, diagonal, input), input.shape)

\* MiniBuffer.replace(input, target, new)
replace(input, target, new) ==
    MiniBuffer([i \in 1..Len(input.data) |->
                   IF input.data[i] = target THEN new ELSE input.data[i]],
               input.shape)

RECURSIVE traverse_dims_and_masked_fill(_, _, _, _, _)
traverse_dims_and_masked_fill(depth_idx, current_position, mask, value, x) ==
    IF depth_idx = Len(x.shape)
    THEN [val_idx \in 1..x.shape[depth_idx] |->
            IF mask[current_position + (val_idx - 1) * x.strides[depth_idx] + 1]
            THEN value
            ELSE x.data[current_position + (val_idx - 1) * x.strides[depth_idx] + 1]]
    ELSE Concat([dim_idx \in 1..x.shape[depth_idx] |->
            traverse_dims_and_masked_fill(
                depth_idx + 1,
                current_position + (dim_idx - 1) * x.strides[depth_idx],
                mask, value, x)])

\* MiniBuffer.masked_fill(input, mask, value)
masked_fill(input, mask, value) ==
    MiniBuffer(traverse_dims_and_masked_fill(1, 0, mask, value, input), input.shape)

\* MiniBuffer.is_square
is_square(self) == self.shape[Len(self.shape) - 1] = self.shape[Len(self.shape)]

\* MiniBuffer._compare: False at the first pair that differs
RECURSIVE compare(_, _, _, _, _)
compare(depth_idx, current_positions, x, target, val_idx) ==
    IF val_idx > x.shape[depth_idx] THEN TRUE
    ELSE IF x.data[current_positions[1] + (val_idx - 1) * x.strides[depth_idx] + 1]
            # target.data[current_positions[2]
                          + (val_idx - 1) * target.strides[depth_idx] + 1]
         THEN FALSE
         ELSE compare(depth_idx, current_positions, x, target, val_idx + 1)

\* MiniBuffer._traverse_dims_and_compare.  Above the last axis the loop body
\* starts with current_position + dim_idx * x.strides[depth_idx], where
\* current_position is the tuple is_equal_to passed: Python raises TypeError
\* for tuple + int in the first iteration, before the `return' inside the
\* loop.  With no iteration the function falls off its end and returns None.
traverse_dims_and_compare(depth_idx, current_position, x, target) ==
    IF depth_idx = Len(x.shape)
    THEN [status |-> "ok", ret |-> compare(depth_idx, current_position, x, target, 1)]
    ELSE IF x.shape[depth_idx] = 0
         THEN [status |-> "ok", ret |-> NoneVal]
         ELSE [status |-> "TypeError", ret |-> NoneVal]

\* MiniBuffer.is_equal_to(target)
is_equal_to(self, target) == traverse_dims_and_compare(1, <<0, 0>>, self, target)

\* ------------------------------------------------------- Storage (wrapper)
\* Storage(data) for a Python scalar: a one-element buffer of shape [1].
ScalarStorage(value) == MiniBuffer(<<value>>, <<1>>)

\* Storage.fill(shape, value)
StorageFill(shape, value) == fill(shape, value)

\* ------------------------------------------------------------------ Tensor
\* A Tensor object.  `sid' names the storage object it holds (two Tensors
\* that hold the same storage object have the same sid); `held' tells
\* whether user code holds a reference to the object (the temporaries that
\* _broadcasted creates are reachable only through `parents'); `origin'
\* tells what built the object: user construction ("new"), Function.apply
\* ("apply"), detach ("detach") or one of the static methods "masked_fill",
\* "replace" and "tril"; `inputs' the Tensors Function.apply was given, or
\* the one Tensor the static method read; and `ran' whether a backward()
\* call on this Tensor has walked at least one operation and returned
\* normally.
\* A grad is a Tensor built by Tensor(g, requires_grad=False) or by
\* Tensor.__add__ of two such: only its storage is kept here, as its
\* requires_grad is False and its grad and _ctx are None.
TensorInit(storage, requires_grad, sid) ==
    [storage |-> storage, sid |-> sid, requires_grad |-> requires_grad,
     grad |-> NoneVal, ctx |-> NoneVal,
     held |-> FALSE, origin |-> "apply", inputs |-> <<>>, ran |-> FALSE]

\* the assertion of Tensor.__init__
RankOk(storage) == Len(storage.shape) <= MaxRank

\* the Tensor.shape property
tshape(h, t) == h[t].storage.shape

\* ---------------------------------------------------------------- Function
NoKw == [new_shape |-> <<>>, axis |-> 0, expanded_size |-> 0, order |-> <<>>]

any(flags) == \E i \in 1..Len(flags) : flags[i]

\* a faulty variant of output_requires_grad that wants every input to require grad
output_requires_grad_all(inputs_need_grad) ==
    \A i \in 1..Len(inputs_need_grad) : inputs_need_grad[i]

output_requires_grad(inputs_need_grad) ==
    IF any(inputs_need_grad) THEN TRUE ELSE FALSE

\* Function.__init__(*inputs), and what forward saves for backward
FunctionInit(h, op, inputs, kw) ==
    LET inputs_need_grad == [i \in 1..Len(inputs) |-> h[inputs[i]].requires_grad]
        out == output_requires_grad(inputs_need_grad)
    IN  [op |-> op,
         inputs_need_grad |-> inputs_need_grad,
         output_requires_grad |-> out,
         parents |-> IF out THEN inputs ELSE <<>>,
         saved |-> [i \in 1..Len(inputs) |-> h[inputs[i]].storage],
         kw |-> kw]

\* ctx.forward(*[input.storage for input in inputs], **kwargs)
forward(op, bufs, kw) ==
    CASE op = "Add" -> add(bufs[1], bufs[2])
      [] op = "Sub" -> sub(bufs[1], bufs[2])
      [] op = "Mul" -> mul(bufs[1], bufs[2])
      [] op = "Div" -> div(bufs[1], bufs[2])
      [] op = "Pow" -> pow(bufs[1], bufs[2])
      [] op = "Reshape" -> reshape(bufs[1], kw.new_shape)
      [] op = "Expand" -> expand(bufs[1], kw.axis, kw.expanded_size)
      [] op = "Sum" -> sum(bufs[1], kw.axis)
      [] op = "Permute" -> permute(bufs[1], kw.order)

\* the order that undoes a permutation
argsort(order) == [i \in 1..Len(order) |-> CHOOSE j \in 1..Len(order) : order[j] = i]

\* ctx.backward(grad): the per-input gradients, None for an input that needs
\* none; ok is FALSE when the rule itself raises.
backward_rule(ctx, g) ==
    LET need == ctx.inputs_need_grad
        opt(i, b) == IF need[i] THEN b ELSE NoneVal
    IN  CASE ctx.op = "Add" -> [ok |-> TRUE, grads |-> <<opt(1, g), opt(2, g)>>]
          [] ctx.op = "Sub" -> [ok |-> TRUE, grads |-> <<opt(1, g), opt(2, neg(g))>>]
          [] ctx.op = "Mul" ->
                IF g.shape # ctx.saved[1].shape
                THEN [ok |-> FALSE, grads |-> <<>>]
                ELSE [ok |-> TRUE,
                      grads |-> <<opt(1, mul(ctx.saved[2], g)),
                                  opt(2, mul(ctx.saved[1], g))>>]
          [] ctx.op = "Reshape" ->
                [ok |-> TRUE, grads |-> <<opt(1, reshape(g, ctx.saved[1].shape))>>]
          [] ctx.op = "Expand" ->
                IF Len(g.shape) < ctx.kw.axis
                THEN [ok |-> FALSE, grads |-> <<>>]
                ELSE [ok |-> TRUE, grads |-> <<opt(1, sum(g, ctx.kw.axis))>>]
          [] ctx.op = "Sum" ->
                IF Len(g.shape) < ctx.kw.axis \/ g.shape[ctx.kw.axis] # 1
                THEN [ok |-> FALSE, grads |-> <<>>]
                ELSE [ok |-> TRUE,
                      grads |-> <<opt(1, expand(g, ctx.kw.axis,
                                                ctx.saved[1].shape[ctx.kw.axis]))>>]
          [] ctx.op = "Permute" ->
                IF Len(g.shape) # Len(ctx.kw.order)
                THEN [ok |-> FALSE, grads |-> <<>>]
                ELSE [ok |-> TRUE,
                      grads |-> <<opt(1, permute(g, argsort(ctx.kw.order)))>>]

\* Function.apply(fn_ctor, *inputs, **kwargs): the heap with the new Tensor
\* appended, and its id.
apply(h, op, inputs, kw) ==
    Bind(FunctionInit(h, op, inputs, kw), LAMBDA ctx :
    Bind(forward(op, ctx.saved, kw), LAMBDA storage :
        [ok |-> RankOk(storage),
         h |-> Append(h, [TensorInit(storage, ctx.output_requires_grad, Len(h) + 1)
                             EXCEPT !.ctx = IF ctx.output_requires_grad
                                            THEN ctx ELSE NoneVal,
                                    !.inputs = inputs]),
         ret |-> Len(h) + 1]))

\* ---------------------------------------------------------- Tensor methods
\* Every method returns the heap after the call, the id(s) of what it
\* returns, and ok = FALSE when an assertion of the method failed.

\* Tensor.pad_shapes(shape_diff, x)
pad_shapes(h, shape_diff, x) ==
    apply(h, "Reshape", <<x>>,
          [NoKw EXCEPT !.new_shape = [i \in 1..shape_diff |-> 1] \o tshape(h, x)])

\* Tensor.reshape(new_shape)
tensor_reshape(h, x, new_shape) ==
    IF (\E i \in 1..Len(new_shape) : new_shape[i] = 0)
       \/ Prod(new_shape) # Prod(tshape(h, x))
    THEN [ok |-> FALSE, h |-> h, ret |-> x]
    ELSE apply(h, "Reshape", <<x>>, [NoKw EXCEPT !.new_shape = new_shape])

\* a faulty variant of expandable that lets any axis be expanded
expandable_any(dim) == TRUE

\* assert x.shape[dim_idx] == 1
expandable(dim) == dim = 1

\* the loop of Tensor.expand over dim_idx
RECURSIVE expand_loop(_, _, _, _)
expand_next(r, new_shape, dim_idx) == expand_loop(r.h, r.ret, new_shape, dim_idx)

expand_loop(h, x, new_shape, dim_idx) ==
    IF dim_idx > Len(tshape(h, x))
    THEN [ok |-> TRUE, h |-> h, ret |-> x]
    ELSE IF tshape(h, x)[dim_idx] # new_shape[dim_idx]
         THEN IF ~expandable(tshape(h, x)[dim_idx])
              THEN [ok |-> FALSE, h |-> h, ret |-> x]
              ELSE Bind(apply(h, "Expand", <<x>>,
                              [NoKw EXCEPT !.axis = dim_idx,
                                           !.expanded_size = new_shape[dim_idx]]),
                        LAMBDA r : expand_next(r, new_shape, dim_idx + 1))
         ELSE expand_loop(h, x, new_shape, dim_idx + 1)

\* Tensor.expand(new_shape), after the rank assertion
expand_padded(p, new_shape) ==
    IF ~p.ok THEN p ELSE expand_loop(p.h, p.ret, new_shape, 1)

\* Tensor.expand(new_shape)
tensor_expand(h, x, new_shape) ==
    IF Len(new_shape) < Len(tshape(h, x))
    THEN [ok |-> FALSE, h |-> h, ret |-> x]
    ELSE IF Len(new_shape) > Len(tshape(h, x))
         THEN Bind(pad_shapes(h, Len(new_shape) - Len(tshape(h, x)), x),
                   LAMBDA p : expand_padded(p, new_shape))
         ELSE expand_loop(h, x, new_shape, 1)

\* _broadcasted, lines 459-466: the lower-rank operand is reshaped with
\* leading size-1 axes
align_ranks(h, x, y) ==
    LET shape_delta == Len(tshape(h, x)) - Len(tshape(h, y))
        ones(n) == [i \in 1..n |-> 1]
    IN  IF shape_delta = 0 THEN [ok |-> TRUE, h |-> h, x |-> x, y |-> y]
        ELSE IF shape_delta > 0
        THEN Bind(tensor_reshape(h, y, ones(shape_delta) \o tshape(h, y)),
                  LAMBDA r : [ok |-> r.ok, h |-> r.h, x |-> x, y |-> r.ret])
        ELSE Bind(tensor_reshape(h, x, ones(0 - shape_delta) \o tshape(h, x)),
                  LAMBDA r : [ok |-> r.ok, h |-> r.h, x |-> r.ret, y |-> y])

\* _broadcasted, lines 475-478: y is expanded after x
expand_y(ex, y, yshape, shape_ret) ==
    IF ~ex.ok THEN [ok |-> FALSE, h |-> ex.h, x |-> ex.ret, y |-> y]
    ELSE IF yshape = shape_ret THEN [ok |-> TRUE, h |-> ex.h, x |-> ex.ret, y |-> y]
    ELSE Bind(tensor_expand(ex.h, y, shape_ret),
              LAMBDA ey : [ok |-> ey.ok, h |-> ey.h, x |-> ex.ret, y |-> ey.ret])

\* _broadcasted, lines 468-478, on the rank-aligned operands
expand_both(a) ==
    LET xshape == tshape(a.h, a.x)
        yshape == tshape(a.h, a.y)
        shape_ret == [i \in 1..Len(xshape) |-> Max2(xshape[i], yshape[i])]
    IN  IF ~a.ok \/ xshape = yshape THEN a
        ELSE Bind(IF xshape # shape_ret THEN tensor_expand(a.h, a.x, shape_ret)
                  ELSE [ok |-> TRUE, h |-> a.h, ret |-> a.x],
                  LAMBDA ex : expand_y(ex, a.y, yshape, shape_ret))

\* Tensor._broadcasted(y)
broadcasted(h, x, y) ==
    IF tshape(h, x) = tshape(h, y)
    THEN [ok |-> TRUE, h |-> h, x |-> x, y |-> y]
    ELSE Bind(align_ranks(h, x, y), expand_both)

\* what a caller sees of a call: an assertion that failed leaves the heap as
\* it was on entry
call_binary(h, b, op) ==
    IF ~b.ok THEN [ok |-> FALSE, h |-> h, ret |-> 0]
    ELSE apply(b.h, op, <<b.x, b.y>>, NoKw)

\* Tensor.add / sub / mul / div / pow (reverse = False):
\* op.apply(*x._broadcasted(y))
tensor_binary(h, op, x, y) ==
    Bind(broadcasted(h, x, y), LAMBDA b : call_binary(h, b, op))

\* Tensor.transpose(axis0 = -2, axis1 = -1)
transpose_order(n) ==
    [i \in 1..n |-> IF i = n - 1 THEN n ELSE IF i = n THEN n - 1 ELSE i]

transpose_padded(p) ==
    IF ~p.ok THEN p
    ELSE apply(p.h, "Permute", <<p.ret>>,
               [NoKw EXCEPT !.order = transpose_order(Len(tshape(p.h, p.ret)))])

transpose(h, x) ==
    transpose_padded(IF Len(tshape(h, x)) < 2
                     THEN pad_shapes(h, 2 - Len(tshape(h, x)), x)
                     ELSE [ok |-> TRUE, h |-> h, ret |-> x])

\* the inner _sum(t, axis, keepdims) of Tensor.sum called on self; axis is
\* Python's (0-based, negative from the end), and the assertion and the
\* normalisation read self.shape, not t.shape
shape_squeezed(shape, axis) ==
    [i \in 1..(Len(shape) - 1) |-> IF i < axis + 1 THEN shape[i] ELSE shape[i + 1]]

sum_squeezed(r, axis, keepdims) ==
    IF ~r.ok \/ keepdims THEN r
    ELSE apply(r.h, "Reshape", <<r.ret>>,
               [NoKw EXCEPT !.new_shape = shape_squeezed(tshape(r.h, r.ret), axis)])

sum_axis_normalised(h, t, axis, keepdims) ==
    sum_squeezed(apply(h, "Sum", <<t>>, [NoKw EXCEPT !.axis = axis + 1]),
            axis, keepdims)

sum_axis(h, self, t, axis, keepdims) ==
    IF ~((IF axis < 0 THEN 0 - axis ELSE axis) < Len(tshape(h, self)))
    THEN [ok |-> FALSE, h |-> h, ret |-> t]
    ELSE sum_axis_normalised(h, t,
                             IF axis < 0 THEN Len(tshape(h, self)) + axis ELSE axis,
                             keepdims)

\* the loop of Tensor.sum(axis = None) over axis_idx
RECURSIVE sum_all(_, _, _, _)
sum_all_next(r, self, axis_idx) ==
    IF ~r.ok THEN r ELSE sum_all(r.h, self, r.ret, axis_idx)

sum_all(h, self, x, axis_idx) ==
    IF axis_idx >= Len(tshape(h, self))
    THEN [ok |-> TRUE, h |-> h, ret |-> x]
    ELSE sum_all_next(sum_axis(h, self, x, axis_idx, TRUE), self, axis_idx + 1)

sum_all_reshaped(r, keepdims) ==
    IF ~r.ok \/ keepdims THEN r
    ELSE apply(r.h, "Reshape", <<r.ret>>, [NoKw EXCEPT !.new_shape = <<1>>])

\* Tensor.sum(axis, keepdims); the Optional[int] axis is <<>> for None and
\* <<a>> for the int a
tensor_sum(h, self, axis, keepdims) ==
    IF axis # <<>>
    THEN sum_axis(h, self, self, axis[1], keepdims)
    ELSE sum_all_reshaped(sum_all(h, self, self, 0), keepdims)

\* Tensor.matmul(other), step by step: x = self.reshape(..., 1, k),
\* y = y.reshape(..., 1, k, n).transpose(), (x * y).sum(-1)
matmul_sum(p) ==
    IF ~p.ok THEN p ELSE tensor_sum(p.h, p.ret, <<-1>>, FALSE)

matmul_mul(x, y) ==
    IF ~y.ok THEN y ELSE matmul_sum(tensor_binary(y.h, "Mul", x.ret, y.ret))

matmul_transpose(x, y) ==
    IF ~y.ok THEN y ELSE matmul_mul(x, transpose(y.h, y.ret))

matmul_reshape_y(x, y) ==
    IF ~x.ok THEN x
    ELSE matmul_transpose(x,
            tensor_reshape(x.h, y,
                SubSeq(tshape(x.h, y), 1, Len(tshape(x.h, y)) - 2) \o <<1>>
                \o SubSeq(tshape(x.h, y), Len(tshape(x.h, y)) - 1, Len(tshape(x.h, y)))))

matmul_reshape_x(h, x, y) ==
    matmul_reshape_y(
        tensor_reshape(h, x,
            SubSeq(tshape(h, x), 1, Len(tshape(h, x)) - 1) \o <<1>>
            \o <<tshape(h, x)[Len(tshape(h, x))]>>),
        y)

matmul(h, x, y) ==
    IF ~(Len(tshape(h, x)) > 1 /\ Len(tshape(h, y)) > 1)
    THEN [ok |-> FALSE, h |-> h, ret |-> 0]
    ELSE IF tshape(h, x)[Len(tshape(h, x))] # tshape(h, y)[Len(tshape(h, y)) - 1]
         THEN [ok |-> FALSE, h |-> h, ret |-> 0]
         ELSE matmul_reshape_x(h, x, y)

\* ------------------------------------- masked_fill, replace and tril
\* a faulty variant of made_from that records a producing operation, as
\* Function.apply does
made_from_with_ctx(h, input, storage, origin) ==
    Bind(FunctionInit(h, "Reshape", <<input>>, [NoKw EXCEPT !.new_shape = storage.shape]),
         LAMBDA ctx :
            [ok |-> RankOk(storage),
             h |-> Append(h, [TensorInit(storage, h[input].requires_grad, Len(h) + 1)
                                 EXCEPT !.origin = origin, !.inputs = <<input>>,
                                        !.ctx = IF ctx.output_requires_grad
                                                THEN ctx ELSE NoneVal]),
             ret |-> Len(h) + 1])

\* Tensor(storage, input.requires_grad), as the static methods return it:
\* a new Tensor with neither grad nor producing operation
made_from(h, input, storage, origin) ==
    [ok |-> RankOk(storage),
     h |-> Append(h, [TensorInit(storage, h[input].requires_grad, Len(h) + 1)
                         EXCEPT !.origin = origin, !.inputs = <<input>>]),
     ret |-> Len(h) + 1]

\* Tensor.masked_fill(input, mask, value)
tensor_masked_fill(h, input, mask, value) ==
    IF Len(mask) # Len(h[input].storage.data)
    THEN [ok |-> FALSE, h |-> h, ret |-> 0]
    ELSE made_from(h, input, masked_fill(h[input].storage, mask, value), "masked_fill")

\* Tensor.replace(input, target, new)
tensor_replace(h, input, target, new) ==
    made_from(h, input, replace(h[input].storage, target, new), "replace")

\* Tensor.tril(input, diagonal)
tensor_tril(h, input, diagonal) ==
    IF Len(tshape(h, input)) < 2 THEN [ok |-> FALSE, h |-> h, ret |-> 0]
    ELSE IF ~is_square(h[input].storage) THEN [ok |-> FALSE, h |-> h, ret |-> 0]
    ELSE IF ~(diagonal >= -3 /\ diagonal < 3) THEN [ok |-> FALSE, h |-> h, ret |-> 0]
    ELSE made_from(h, input, tril(h[input].storage, diagonal), "tril")

\* ---------------------------------------------------------------- autograd
\* Tensor.toposort: _toposort(node, visited, nodes) and its loop over
\* node._ctx.parents.  getattr(node, "_ctx", None) is falsy both for a
\* Tensor that never had a producing Function and for one whose _ctx was
\* deleted.
RECURSIVE toposort_rec(_, _, _, _), toposort_parents(_, _, _, _, _)
\* a faulty variant of toposort_rec that also lists a node whose _ctx was
\* deleted
toposort_rec_released(h, node, visited, nodes) ==
    IF h[node].ctx # NoneVal
    THEN Bind(toposort_parents(h, h[node].ctx.parents, 1, visited \cup {node}, nodes),
              LAMBDA r : [visited |-> r.visited, nodes |-> Append(r.nodes, node)])
    ELSE [visited |-> visited \cup {node},
          nodes |-> IF h[node].origin = "apply" /\ h[node].requires_grad
                    THEN Append(nodes, node) ELSE nodes]

\* a faulty variant of toposort_rec that forgets `visited.add(node)'
toposort_rec_unmarked(h, node, visited, nodes) ==
    IF h[node].ctx # NoneVal
    THEN Bind(toposort_parents(h, h[node].ctx.parents, 1, visited, nodes),
              LAMBDA r : [visited |-> r.visited, nodes |-> Append(r.nodes, node)])
    ELSE [visited |-> visited, nodes |-> nodes]

\* a faulty variant of toposort_rec that appends the node before its parents
toposort_rec_preorder(h, node, visited, nodes) ==
    IF h[node].ctx # NoneVal
    THEN toposort_parents(h, h[node].ctx.parents, 1, visited \cup {node},
                          Append(nodes, node))
    ELSE [visited |-> visited \cup {node}, nodes |-> nodes]

toposort_rec(h, node, visited, nodes) ==
    LET v1 == visited \cup {node}
    IN  IF h[node].ctx # NoneVal
        THEN Bind(toposort_parents(h, h[node].ctx.parents, 1, v1, nodes),
                  LAMBDA r : [visited |-> r.visited, nodes |-> Append(r.nodes, node)])
        ELSE [visited |-> v1, nodes |-> nodes]

\* a faulty variant of toposort_parents that forgets `if parent not in visited'
toposort_parents_revisiting(h, parents, i, visited, nodes) ==
    IF i > Len(parents) THEN [visited |-> visited, nodes |-> nodes]
    ELSE Bind(toposort_rec(h, parents[i], visited, nodes),
              LAMBDA r : toposort_parents(h, parents, i + 1, r.visited, r.nodes))

toposort_parents(h, parents, i, visited, nodes) ==
    IF i > Len(parents) THEN [visited |-> visited, nodes |-> nodes]
    ELSE IF parents[i] \notin visited
         THEN Bind(toposort_rec(h, parents[i], visited, nodes),
                   LAMBDA r : toposort_parents(h, parents, i + 1, r.visited, r.nodes))
         ELSE toposort_parents(h, parents, i + 1, visited, nodes)

toposort(h, root) == toposort_rec(h, root, {}, <<>>).nodes

\* parent.grad + grad: Tensor.__add__ of two Tensors that require no grad;
\* the result's storage, ok = FALSE when broadcasting the two asserts.
grad_add(pgrad, grad) ==
    Bind(tensor_binary(<<TensorInit(pgrad, FALSE, 1), TensorInit(grad, FALSE, 2)>>,
                       "Add", 1, 2),
         LAMBDA r : IF r.ok THEN [ok |-> TRUE, grad |-> r.h[r.ret].storage]
                    ELSE [ok |-> FALSE, grad |-> pgrad])

\* a faulty variant of accumulate that keeps only the last contribution
accumulate_overwrite(pgrad, grad) == [ok |-> TRUE, grad |-> grad]

\* parent.grad = grad if parent.grad is None else (parent.grad + grad)
accumulate(pgrad, grad) ==
    IF pgrad = NoneVal THEN [ok |-> TRUE, grad |-> grad] ELSE grad_add(pgrad, grad)

\* for parent, grad in zip(node._ctx.parents, grads): ...
\* `log' records every gradient accepted for a parent, in order.
RECURSIVE accumulate_loop(_, _, _, _, _, _)
\* a faulty variant of accumulate_loop that forgets
\* `assert grad.shape == parent.shape'
accumulate_loop_unchecked(h, node, parents, grads, i, log) ==
    IF i > Len(parents) \/ i > Len(grads) THEN [ok |-> TRUE, h |-> h, log |-> log]
    ELSE IF grads[i] # NoneVal /\ h[parents[i]].requires_grad
         THEN Bind(accumulate(h[parents[i]].grad, grads[i]), LAMBDA a :
                IF ~a.ok THEN [ok |-> FALSE, h |-> h, log |-> log]
                ELSE accumulate_loop(
                         [h EXCEPT ![parents[i]].grad = a.grad],
                         node, parents, grads, i + 1,
                         Append(log, [node |-> node, parent |-> parents[i],
                                      grad |-> grads[i]])))
         ELSE accumulate_loop(h, node, parents, grads, i + 1, log)

accumulate_loop(h, node, parents, grads, i, log) ==
    IF i > Len(parents) \/ i > Len(grads) THEN [ok |-> TRUE, h |-> h, log |-> log]
    ELSE IF grads[i] # NoneVal /\ h[parents[i]].requires_grad
         THEN IF grads[i].shape # tshape(h, parents[i])
              THEN [ok |-> FALSE, h |-> h, log |-> log]
              ELSE Bind(accumulate(h[parents[i]].grad, grads[i]), LAMBDA a :
                     IF ~a.ok THEN [ok |-> FALSE, h |-> h, log |-> log]
                     ELSE accumulate_loop(
                              [h EXCEPT ![parents[i]].grad = a.grad],
                              node, parents, grads, i + 1,
                              Append(log, [node |-> node, parent |-> parents[i],
                                           grad |-> grads[i]])))
         ELSE accumulate_loop(h, node, parents, grads, i + 1, log)

\* a faulty variant of release_ctx that keeps the producing Function
release_ctx_kept(h, node) == h

\* a faulty variant of release_ctx that deletes the _ctx of the node's first
\* parent instead of the node's own
release_ctx_of_parent(h, node) ==
    [h EXCEPT ![h[node].ctx.parents[1]].ctx = NoneVal]

\* del node._ctx
release_ctx(h, node) == [h EXCEPT ![node].ctx = NoneVal]

\* the body of `for node in reversed(autograd_graph)': the heap after it and
\* how it ended ("ok", or the exception that left the loop)
backward_rule_applied(h, node, log, br) ==
    IF ~br.ok THEN [status |-> "Error", h |-> h, log |-> log]
    ELSE Bind(accumulate_loop(h, node, h[node].ctx.parents, br.grads, 1, log),
              LAMBDA a :
                 IF ~a.ok THEN [status |-> "AssertionError", h |-> a.h, log |-> a.log]
                 ELSE [status |-> "ok", h |-> release_ctx(a.h, node), log |-> a.log])

backward_node(h, node, log) ==
    IF h[node].grad = NoneVal
    THEN [status |-> "AssertionError", h |-> h, log |-> log]
    ELSE Bind(backward_rule(h[node].ctx, h[node].grad),
              LAMBDA br : backward_rule_applied(h, node, log, br))

\* a faulty variant of seed_grad that seeds the root with 2.0
seed_grad_two == ScalarStorage(2)

\* the seed of backward: Tensor(1.0, requires_grad=False)
seed_grad == ScalarStorage(1)

\* a faulty variant of seed that also clears the grad of every other Tensor
seed_zeroing(h, root) ==
    [t \in 1..Len(h) |->
        [h[t] EXCEPT !.grad = IF t = root THEN seed_grad ELSE NoneVal]]

\* self.grad = Tensor(1.0, requires_grad=False): the root's grad is replaced,
\* no other Tensor is touched
seed(h, root) == [h EXCEPT ![root].grad = seed_grad]

\* ------------------------------------------------------------------- state
\* result: the outcome of the last call made by user code.
Result(call, status, args, ret) ==
    [call |-> call, status |-> status, args |-> args, ret |-> ret]

\* bw: the backward pass in progress or last finished.  topo is the list
\* toposort returned, order what is left of reversed(topo), before the grad
\* slots on entry, log the gradients accepted so far.
BwIdle == [root |-> 0, topo |-> <<>>, order |-> <<>>, before |-> <<>>, log |-> <<>>]

\* what user code constructs: Tensor.fill(shape, value, requires_grad)
LeafKinds ==
    {[shape |-> <<1>>, requires_grad |-> TRUE],
     [shape |-> <<1>>, requires_grad |-> FALSE],
     [shape |-> <<2>>, requires_grad |-> TRUE],
     [shape |-> <<1, 2>>, requires_grad |-> TRUE]}
LeafValues == {2}

Held(h) == {t \in 1..Len(h) : h[t].held}

Grads(h) == [t \in 1..Len(h) |-> h[t].grad]

Leaf(kind, value, id) ==
    [TensorInit(StorageFill(kind.shape, value), kind.requires_grad, id)
        EXCEPT !.held = TRUE, !.origin = "new"]

Init ==
    /\ tensors = <<>>
    /\ pc = "idle"
    /\ bw = BwIdle
    /\ result = Result("none", "ok", <<>>, 0)

\* ----------------------------------------------------------------- actions
\* Tensor.fill(shape, value, requires_grad)
NewTensor(kind, value) ==
    /\ pc = "idle"
    /\ Len(tensors) < MaxTensors
    /\ tensors' = Append(tensors, Leaf(kind, value, Len(tensors) + 1))
    /\ result' = Result("Tensor", "ok", <<>>, Len(tensors) + 1)
    /\ bw' = BwIdle
    /\ UNCHANGED pc

\* x + y, x - y, x * y with at most `cap' Tensors alive afterwards.  The
\* temporaries of a call that fails are unreachable and are dropped.
BinaryCall(op, x, y, cap) ==
    /\ pc = "idle"
    /\ x \in Held(tensors) /\ y \in Held(tensors)
    /\ \E r \in {tensor_binary(tensors, op, x, y)} :
          IF r.ok
          THEN /\ Len(r.h) <= cap
               /\ tensors' = [r.h EXCEPT ![r.ret].held = TRUE]
               /\ result' = Result(op, "ok", <<x, y>>, r.ret)
          ELSE /\ tensors' = tensors
               /\ result' = Result(op, "AssertionError", <<x, y>>, 0)
    /\ bw' = BwIdle
    /\ UNCHANGED pc

\* Tensor.backward up to the loop: the assertion, the seed and toposort
BackwardBegin(root) ==
    /\ pc = "idle"
    /\ root \in Held(tensors)
    /\ IF ~is_scalar(tensors[root].storage)
       THEN /\ tensors' = tensors
            /\ result' = Result("backward", "AssertionError", <<root>>, 0)
            /\ bw' = [BwIdle EXCEPT !.root = root, !.before = Grads(tensors)]
            /\ UNCHANGED pc
       ELSE \E autograd_graph \in {toposort(seed(tensors, root), root)} :
                /\ tensors' = seed(tensors, root)
                /\ bw' = [root |-> root, topo |-> autograd_graph,
                          order |-> Reverse(autograd_graph),
                          before |-> Grads(tensors), log |-> <<>>]
                /\ IF autograd_graph = <<>>
                   THEN /\ result' = Result("backward", "ok", <<root>>, 0)
                        /\ UNCHANGED pc
                   ELSE /\ result' = Result("backward", "running", <<root>>, 0)
                        /\ pc' = "backward"

\* one iteration of `for node in reversed(autograd_graph)'
BackwardStep ==
    /\ pc = "backward"
    /\ \E r \in {backward_node(tensors, Head(bw.order), bw.log)} :
          /\ IF r.status = "ok"
             THEN /\ bw' = [bw EXCEPT !.order = Tail(bw.order), !.log = r.log]
                  /\ IF Tail(bw.order) = <<>>
                     THEN /\ tensors' = [r.h EXCEPT ![bw.root].ran = TRUE]
                          /\ pc' = "idle"
                          /\ result' = Result("backward", "ok", <<bw.root>>, 0)
                     ELSE /\ tensors' = r.h
                          /\ UNCHANGED <<pc, result>>
             ELSE /\ tensors' = r.h
                  /\ bw' = [bw EXCEPT !.log = r.log]
                  /\ pc' = "idle"
                  /\ result' = Result("backward", r.status, <<bw.root>>, 0)

\* a faulty variant of detach that copies the autograd fields of the original
detach_keeps_autograd(h, self) ==
    Append(h, [h[self] EXCEPT !.held = TRUE, !.origin = "detach"])

\* Tensor.detach: Tensor(self.storage)
detach(h, self) ==
    Append(h, [TensorInit(h[self].storage, FALSE, h[self].sid)
                  EXCEPT !.held = TRUE, !.origin = "detach"])

Detach(self) ==
    /\ pc = "idle"
    /\ self \in Held(tensors)
    /\ Cardinality({t \in 1..Len(tensors) : tensors[t].origin = "detach"}) < MaxDetached
    /\ tensors' = detach(tensors, self)
    /\ result' = Result("detach", "ok", <<self>>, Len(tensors) + 1)
    /\ bw' = BwIdle
    /\ UNCHANGED pc

\* a faulty variant of assign_ok that forgets `assert not x.requires_grad'
assign_ok_shape_only(h, self, x) == tshape(h, self) = tshape(h, x)

\* the two assertions of Tensor.assign
assign_ok(h, self, x) ==
    /\ tshape(h, self) = tshape(h, x)
    /\ ~h[x].requires_grad

\* self.storage = x.storage
assign(h, self, x) ==
    [h EXCEPT ![self].storage = h[x].storage, ![self].sid = h[x].sid]

\* self.assign(x) for a Tensor x
Assign(self, x) ==
    /\ pc = "idle"
    /\ self \in Held(tensors) /\ x \in Held(tensors)
    /\ IF assign_ok(tensors, self, x)
       THEN /\ tensors' = assign(tensors, self, x)
            /\ result' = Result("assign", "ok", <<self, x>>, self)
       ELSE /\ tensors' = tensors
            /\ result' = Result("assign", "AssertionError", <<self, x>>, 0)
    /\ bw' = BwIdle
    /\ UNCHANGED pc

\* x._broadcasted(y), called on its own
Broadcast(x, y) ==
    /\ pc = "idle"
    /\ result.call = "none"
    /\ x \in Held(tensors) /\ y \in Held(tensors)
    /\ \E b \in {broadcasted(tensors, x, y)} :
          IF b.ok
          THEN /\ tensors' = b.h
               /\ result' = Result("_broadcasted", "ok", <<x, y>>, <<b.x, b.y>>)
          ELSE /\ tensors' = tensors
               /\ result' = Result("_broadcasted", "AssertionError", <<x, y>>, <<>>)
    /\ UNCHANGED <<pc, bw>>

\* Any sequence of constructions, operations and backward() calls.
Next ==
    \/ \E kind \in LeafKinds, value \in LeafValues : NewTensor(kind, value)
    \/ \E op \in {"Add", "Mul"}, x, y \in 1..Len(tensors) :
          BinaryCall(op, x, y, MaxTensors)
    \/ \E root \in 1..Len(tensors) : BackwardBegin(root)
    \/ BackwardStep

Spec == Init /\ [][Next]_vars

\* --------------------------------------------- assign and detach in a graph
\* User code has built two Tensors with Tensor.fill and p = t1 * t2; it
\* then calls backward and assign, or backward and detach, in any order.
AssignLeafKinds ==
    {[shape |-> <<1>>, requires_grad |-> TRUE],
     [shape |-> <<1>>, requires_grad |-> FALSE],
     [shape |-> <<2>>, requires_grad |-> FALSE]}

InitAssign ==
    /\ \E k1, k2 \in AssignLeafKinds :
          \E r \in {tensor_binary(<<Leaf(k1, 2, 1), Leaf(k2, 2, 2)>>, "Mul", 1, 2)} :
              /\ r.ok
              /\ tensors = [r.h EXCEPT ![r.ret].held = TRUE]
              /\ result = Result("Mul", "ok", <<1, 2>>, r.ret)
    /\ pc = "idle"
    /\ bw = BwIdle

NextAssign ==
    \/ \E root \in 1..Len(tensors) : BackwardBegin(root)
    \/ BackwardStep
    \/ \E self, x \in 1..Len(tensors) : Assign(self, x)

SpecAssign == InitAssign /\ [][NextAssign]_vars

NextDetach ==
    \/ \E root \in 1..Len(tensors) : BackwardBegin(root)
    \/ BackwardStep
    \/ \E self \in 1..Len(tensors) : Detach(self)

SpecDetach == InitAssign /\ [][NextDetach]_vars

\* ------------------------------------------- f = (a * b) - c; f.backward()
ExprValues == {-1, 0, 3, 4, 17}
ExprTensors == 5

ScalarLeaf(value, id) ==
    [TensorInit(ScalarStorage(value), TRUE, id) EXCEPT !.held = TRUE, !.origin = "new"]

InitExpr ==
    /\ \E a, b, c \in ExprValues :
          tensors = <<ScalarLeaf(a, 1), ScalarLeaf(b, 2), ScalarLeaf(c, 3)>>
    /\ pc = "idle"
    /\ bw = BwIdle
    /\ result = Result("none", "ok", <<>>, 0)

NextExpr ==
    \/ Len(tensors) = 3 /\ BinaryCall("Mul", 1, 2, ExprTensors)
    \/ Len(tensors) = 4 /\ BinaryCall("Sub", 4, 3, ExprTensors)
    \/ Len(tensors) = 5 /\ result.call = "Sub" /\ BackwardBegin(5)
    \/ BackwardStep

SpecExpr == InitExpr /\ [][NextExpr]_vars

\* ------------------------------------------------ broadcasting two shapes
RECURSIVE ShapesOfRank(_)
ShapesOfRank(r) ==
    IF r = 0 THEN {<<>>}
    ELSE {<<d>> \o s : d \in 1..MaxDim, s \in ShapesOfRank(r - 1)}

Shapes == UNION {ShapesOfRank(r) : r \in 1..MaxRank}

InitBroadcast ==
    /\ \E s1, s2 \in Shapes :
          tensors = <<Leaf([shape |-> s1, requires_grad |-> FALSE], 1, 1),
                      Leaf([shape |-> s2, requires_grad |-> FALSE], 1, 2)>>
    /\ pc = "idle"
    /\ bw = BwIdle
    /\ result = Result("none", "ok", <<>>, 0)

NextBroadcast ==
    \/ Broadcast(1, 2)
    \/ result.call = "none" /\ BinaryCall("Add", 1, 2, 2 * MaxRank + 3)

SpecBroadcast == InitBroadcast /\ [][NextBroadcast]_vars

\* ------------------------------------------- operations of one MiniBuffer
\* A contiguous buffer of any shape of rank 1 to 4 is built, holding 1, 2,
\* 3, ... in row-major order or all ones; one operation is applied to it.
BufferKinds == {"iota", "ones"}

BufferOf(shape, kind) ==
    MiniBuffer([i \in 1..Prod(shape) |-> IF kind = "iota" THEN i ELSE 1], shape)

\* the buffer the operations are applied to
X == tensors[1].storage

InitBuffer ==
    /\ \E shape \in Shapes, kind \in BufferKinds :
          tensors = <<[TensorInit(BufferOf(shape, kind), FALSE, 1)
                          EXCEPT !.held = TRUE, !.origin = "new"]>>
    /\ pc = "idle"
    /\ bw = BwIdle
    /\ result = Result("none", "ok", <<>>, 0)

\* no call has been made on X yet
Fresh == pc = "idle" /\ result.call = "none"

\* records the outcome of one call on X
Returned(call, args, status, ret) ==
    /\ result' = Result(call, status, args, ret)
    /\ UNCHANGED <<tensors, pc, bw>>

StridesCall ==
    /\ Fresh
    /\ \E r \in {get_strides_from_shape(X.shape)} :
          Returned("get_strides_from_shape", <<X.shape>>, "ok", r)

SumCall(axis) ==
    /\ Fresh
    /\ axis \in 1..Len(X.shape)
    /\ \E r \in {sum(X, axis)} : Returned("sum", <<axis>>, "ok", r)

ExpandCall(axis, expanded_size) ==
    /\ Fresh
    /\ axis \in 1..Len(X.shape)
    /\ X.shape[axis] = 1
    /\ \E r \in {expand(X, axis, expanded_size)} :
          Returned("expand", <<axis, expanded_size>>, "ok", r)

\* the permutations of 1..n, as sequences
AxisOrders(n) ==
    {order \in [1..n -> 1..n] : \A i, j \in 1..n : order[i] = order[j] => i = j}

PermuteCall(order) ==
    /\ Fresh
    /\ \E r \in {permute(X, order)} : Returned("permute", <<order>>, "ok", r)

TrilDiagonals == {-2, -1, 0, 1, 2}

TrilCall(diagonal) ==
    /\ Fresh
    /\ Len(X.shape) >= 2
    /\ \E r \in {tril(X, diagonal)} : Returned("tril", <<diagonal>>, "ok", r)

\* X with the element at row-major position p replaced (p = 0: a copy of X)
Changed(p) ==
    IF p = 0 THEN X ELSE MiniBuffer([X.data EXCEPT ![p] = X.data[p] + 1], X.shape)

IsEqualToCall(p) ==
    /\ Fresh
    /\ \E r \in {is_equal_to(X, Changed(p))} :
          Returned("is_equal_to", <<Changed(p)>>, r.status, r.ret)

\* X.pad(new_shape) for a new_shape that is nowhere smaller than X.shape
PadCall(new_shape) ==
    /\ Fresh
    /\ \A i \in 1..Len(X.shape) : new_shape[i] >= X.shape[i]
    /\ \E r \in {pad(X, new_shape)} : Returned("pad", <<new_shape>>, "ok", r)

NextBuffer ==
    \/ StridesCall
    \/ Fresh /\ \E new_shape \in ShapesOfRank(Len(X.shape)) : PadCall(new_shape)
    \/ \E axis \in 1..MaxRank : SumCall(axis)
    \/ \E axis \in 1..MaxRank, expanded_size \in 1..MaxDim : ExpandCall(axis, expanded_size)
    \/ Fresh /\ \E order \in AxisOrders(Len(X.shape)) : PermuteCall(order)
    \/ \E diagonal \in TrilDiagonals : TrilCall(diagonal)
    \/ Fresh /\ \E p \in 0..Len(X.data) : IsEqualToCall(p)

SpecBuffer == InitBuffer /\ [][NextBuffer]_vars

\* ------------------------------------------------- graphs and toposort
\* User code has built one or two scalar Tensors of value 1.0 with
\* Tensor.fill; it multiplies Tensors it holds until at most TopoTensors
\* Tensors are alive, then calls backward on one of them, and asks any Tensor
\* for its toposort at any time outside the backward pass.
TopoLeafKinds ==
    {[shape |-> <<1>>, requires_grad |-> TRUE],
     [shape |-> <<1>>, requires_grad |-> FALSE]}

InitTopo ==
    /\ \/ \E k1 \in TopoLeafKinds : tensors = <<Leaf(k1, 1, 1)>>
       \/ \E k1, k2 \in TopoLeafKinds : tensors = <<Leaf(k1, 1, 1), Leaf(k2, 1, 2)>>
    /\ pc = "idle"
    /\ bw = BwIdle
    /\ result = Result("none", "ok", <<>>, 0)

\* root.toposort()
ToposortCall(root) ==
    /\ pc = "idle"
    /\ root \in Held(tensors)
    /\ result' = Result("toposort", "ok", <<root>>, toposort(tensors, root))
    /\ UNCHANGED <<tensors, pc, bw>>

\* backward has not been called yet
NoGrads == \A t \in 1..Len(tensors) : tensors[t].grad = NoneVal

NextTopo ==
    \/ NoGrads /\ \E x, y \in 1..Len(tensors) : BinaryCall("Mul", x, y, TopoTensors)
    \/ \E root \in 1..Len(tensors) : ToposortCall(root)
    \/ NoGrads /\ \E root \in 1..Len(tensors) : BackwardBegin(root)
    \/ BackwardStep

SpecTopo == InitTopo /\ [][NextTopo]_vars

\* --------------------------------------------- several passes on one graph
\* User code has built one or two scalar Tensors of value 1.0; it adds and
\* multiplies Tensors it holds and calls backward on any of them, any number
\* of times and in any order, with at most SharedTensors Tensors alive.
NextShared ==
    \/ \E op \in {"Add", "Mul"}, x, y \in 1..Len(tensors) :
          BinaryCall(op, x, y, SharedTensors)
    \/ \E root \in 1..Len(tensors) : BackwardBegin(root)
    \/ BackwardStep

SpecShared == InitTopo /\ [][NextShared]_vars

\* ------------------------------------------- the state machine of matmul
\* Two Tensors x and y of rank 1 to 4 holding 1, 2, 3, ... in row-major
\* order, and one call of x.matmul(y).
RECURSIVE MatShapesOfRank(_)
MatShapesOfRank(r) ==
    IF r = 0 THEN {<<>>}
    ELSE {<<d>> \o s : d \in 1..MaxMatDim, s \in MatShapesOfRank(r - 1)}

MatShapes == UNION {MatShapesOfRank(r) : r \in 1..MaxRank}

InitMatmul ==
    /\ \E s1, s2 \in MatShapes :
          tensors = <<[TensorInit(BufferOf(s1, "iota"), FALSE, 1)
                          EXCEPT !.held = TRUE, !.origin = "new"],
                      [TensorInit(BufferOf(s2, "iota"), FALSE, 2)
                          EXCEPT !.held = TRUE, !.origin = "new"]>>
    /\ pc = "idle"
    /\ bw = BwIdle
    /\ result = Result("none", "ok", <<>>, 0)

MatmulCall(x, y) ==
    /\ Fresh
    /\ \E r \in {matmul(tensors, x, y)} :
          IF r.ok
          THEN /\ tensors' = r.h
               /\ result' = Result("matmul", "ok", <<x, y>>, r.ret)
          ELSE /\ tensors' = tensors
               /\ result' = Result("matmul", "AssertionError", <<x, y>>, 0)
    /\ UNCHANGED <<pc, bw>>

NextMatmul == MatmulCall(1, 2)

SpecMatmul == InitMatmul /\ [][NextMatmul]_vars

\* ------------------------------------ binary operations on strided buffers
\* Two buffers of one logical shape, each a MiniBuffer(data, new_dims,
\* strides=new_strides) as permute builds it from a contiguous buffer: the
\* data stays in the row-major order of the shape it was created with.  x
\* holds 1, 2, 3, ... and y holds 10, 20, 30, ...
BaseShape(shape, order) ==
    [j \in 1..Len(shape) |-> shape[CHOOSE i \in 1..Len(order) : order[i] = j]]

StridedBuffer(shape, order, scale) ==
    MiniBufferS([i \in 1..Prod(shape) |-> scale * i], shape,
                [i \in 1..Len(order) |->
                    get_strides_from_shape(BaseShape(shape, order))[order[i]]])

Y == tensors[2].storage

InitBinary ==
    /\ \E shape \in MatShapes :
          \E o1, o2 \in AxisOrders(Len(shape)) :
              tensors = <<[TensorInit(StridedBuffer(shape, o1, 1), FALSE, 1)
                              EXCEPT !.held = TRUE, !.origin = "new"],
                          [TensorInit(StridedBuffer(shape, o2, 10), FALSE, 2)
                              EXCEPT !.held = TRUE, !.origin = "new"]>>
    /\ pc = "idle"
    /\ bw = BwIdle
    /\ result = Result("none", "ok", <<>>, 0)

\* X + Y, X - Y, X * Y on the buffers
AddCall == Fresh /\ Returned("add", <<>>, "ok", add(X, Y))
SubCall == Fresh /\ Returned("sub", <<>>, "ok", sub(X, Y))
MulCall == Fresh /\ Returned("mul", <<>>, "ok", mul(X, Y))

NextBinary == AddCall \/ SubCall \/ MulCall

SpecBinary == InitBinary /\ [][NextBinary]_vars

\* ------------------------------------------- sequences of movement calls
\* User code holds one contiguous buffer x and keeps replacing it by
\* x.permute(order), x.expand(axis, expanded_size) or x.sum(axis), up to
\* MaxChain calls one after the other.  sid counts the buffers made.
InitChain ==
    /\ \E shape \in MatShapes :
          tensors = <<[TensorInit(BufferOf(shape, "iota"), FALSE, 0)
                          EXCEPT !.held = TRUE, !.origin = "new"]>>
    /\ pc = "idle"
    /\ bw = BwIdle
    /\ result = Result("none", "ok", <<>>, 0)

\* x = <the buffer the call returned>
Rebound(call, args, r) ==
    /\ tensors' = <<[tensors[1] EXCEPT !.storage = r, !.sid = @ + 1]>>
    /\ result' = Result(call, "ok", args, r)
    /\ UNCHANGED <<pc, bw>>

ChainPermute(order) ==
    /\ tensors[1].sid < MaxChain
    /\ \E r \in {permute(X, order)} : Rebound("permute", <<order>>, r)

ChainExpand(axis, expanded_size) ==
    /\ tensors[1].sid < MaxChain
    /\ axis <= Len(X.shape)
    /\ X.shape[axis] = 1
    /\ \E r \in {expand(X, axis, expanded_size)} :
          Rebound("expand", <<axis, expanded_size>>, r)

ChainSum(axis) ==
    /\ tensors[1].sid < MaxChain
    /\ axis <= Len(X.shape)
    /\ \E r \in {sum(X, axis)} : Rebound("sum", <<axis>>, r)

NextChain ==
    \/ tensors[1].sid < MaxChain
          /\ \E order \in AxisOrders(Len(X.shape)) : ChainPermute(order)
    \/ \E axis \in 1..MaxRank, expanded_size \in 1..MaxMatDim :
          ChainExpand(axis, expanded_size)
    \/ \E axis \in 1..MaxRank : ChainSum(axis)

SpecChain == InitChain /\ [][NextChain]_vars

\* ------------------------------------------------- the in-place operators
\* +=, -=, *=, /=, **= and @= as the methods Python calls for them
InPlaceOps ==
    {"__iadd__", "__isub__", "__imul__", "__itruediv__", "__ipow__", "__imatmul__"}

\* self.add(other), self.sub(other), self.mul(other), self.div(other),
\* self.pow(other), self.matmul(other): the replacement the operator computes
replacement(h, iop, self, other) ==
    CASE iop = "__iadd__" -> tensor_binary(h, "Add", self, other)
      [] iop = "__isub__" -> tensor_binary(h, "Sub", self, other)
      [] iop = "__imul__" -> tensor_binary(h, "Mul", self, other)
      [] iop = "__itruediv__" -> tensor_binary(h, "Div", self, other)
      [] iop = "__ipow__" -> tensor_binary(h, "Pow", self, other)
      [] iop = "__imatmul__" -> matmul(h, self, other)

\* the largest storage id in use
MaxSid(h) == CHOOSE m \in {h[t].sid : t \in 1..Len(h)} : \A t \in 1..Len(h) : h[t].sid <= m

\* self.assign(x) inside an in-place operator, where x and the temporaries of
\* the operator are dropped on return: self holds x's storage, a new object
assigned(h, r, self) ==
    [h EXCEPT ![self].storage = assign(r.h, self, r.ret)[self].storage,
              ![self].sid = MaxSid(h) + 1]

\* a faulty variant of inplace that assigns a detached replacement
inplace_detached(h, iop, self, other) ==
    Bind(replacement(h, iop, self, other), LAMBDA r :
        IF ~r.ok THEN [ok |-> FALSE, h |-> h, ret |-> 0]
        ELSE IF tshape(r.h, self) # tshape(r.h, r.ret)
             THEN [ok |-> FALSE, h |-> h, ret |-> 0]
             ELSE [ok |-> TRUE, h |-> assigned(h, r, self), ret |-> self])

\* Tensor.__iadd__ and the five like it: return self.assign(self.add(other))
inplace(h, iop, self, other) ==
    Bind(replacement(h, iop, self, other), LAMBDA r :
        IF ~r.ok THEN [ok |-> FALSE, h |-> h, ret |-> 0]
        ELSE IF ~assign_ok(r.h, self, r.ret)
             THEN [ok |-> FALSE, h |-> h, ret |-> 0]
             ELSE [ok |-> TRUE, h |-> assigned(h, r, self), ret |-> self])

\* the numbers the operator would compute stay whole: a divisor that is not
\* zero and divides, an exponent that is not negative
Whole(iop, x, y) ==
    \A i \in 1..Len(x.data), j \in 1..Len(y.data) :
        /\ iop = "__itruediv__" => y.data[j] # 0 /\ x.data[i] % y.data[j] = 0
        /\ iop = "__ipow__" => y.data[j] >= 0

\* an in-place operator has been applied
InPlaceDone == result.call \in InPlaceOps

\* self op= other
InPlace(iop, self, other) ==
    /\ pc = "idle"
    /\ self \in Held(tensors) /\ other \in Held(tensors)
    /\ ~InPlaceDone
    /\ Whole(iop, tensors[self].storage, tensors[other].storage)
    /\ \E r \in {inplace(tensors, iop, self, other)} :
          /\ tensors' = r.h
          /\ result' = Result(iop, IF r.ok THEN "ok" ELSE "AssertionError",
                              <<self, other>>, r.ret)
    /\ bw' = BwIdle
    /\ UNCHANGED pc

\* User code has built two Tensors of 1.0s with Tensor.fill; it multiplies
\* Tensors it holds until at most InPlaceTensors are alive, calls backward
\* once on any of them and at the end applies one in-place operator to any
\* two of them.
InPlaceKinds ==
    {[shape |-> s, requires_grad |-> g] :
        s \in {<<1>>, <<2>>, <<2, 2>>}, g \in BOOLEAN}

InitInPlace ==
    /\ \E k1, k2 \in InPlaceKinds : tensors = <<Leaf(k1, 1, 1), Leaf(k2, 1, 2)>>
    /\ pc = "idle"
    /\ bw = BwIdle
    /\ result = Result("none", "ok", <<>>, 0)

NextInPlace ==
    \/ ~InPlaceDone /\ \E x, y \in 1..Len(tensors) :
          BinaryCall("Mul", x, y, InPlaceTensors)
    \/ ~InPlaceDone /\ NoGrads /\ \E root \in 1..Len(tensors) : BackwardBegin(root)
    \/ BackwardStep
    \/ \E iop \in InPlaceOps, self, other \in 1..Len(tensors) :
          InPlace(iop, self, other)

SpecInPlace == InitInPlace /\ [][NextInPlace]_vars

\* ------------------------------ masked_fill, replace and tril in a graph
\* User code has built one Tensor holding 1.0, of shape (1,) or (1, 1); it
\* makes Tensors from those it holds with masked_fill, replace and tril,
\* multiplies them and reshapes them to (1,) until at most MadeTensors Tensors
\* are alive, and calls backward once on any of them.  It stops at the first
\* call that raises.
MadeKinds ==
    {[shape |-> s, requires_grad |-> g] : s \in {<<1>>, <<1, 1>>}, g \in BOOLEAN}

InitMade ==
    /\ \E k1 \in MadeKinds : tensors = <<Leaf(k1, 1, 1)>>
    /\ pc = "idle"
    /\ bw = BwIdle
    /\ result = Result("none", "ok", <<>>, 0)

\* the masks user code passes for n elements: none, all, and one of the
\* wrong length
Masks(n) ==
    {[i \in 1..n |-> FALSE], [i \in 1..n |-> TRUE], [i \in 1..(n + 1) |-> TRUE]}

\* the diagonals user code passes: below, on, and out of the accepted range
MadeDiagonals == {-1, 0, 3}

\* the outcome of a call that builds a Tensor: held by user code when it
\* succeeds and fits, the heap unchanged when it raises
Built(call, args, r) ==
    /\ IF r.ok
       THEN /\ Len(r.h) <= MadeTensors
            /\ tensors' = [r.h EXCEPT ![r.ret].held = TRUE]
            /\ result' = Result(call, "ok", args, r.ret)
       ELSE /\ tensors' = tensors
            /\ result' = Result(call, "AssertionError", args, 0)
    /\ bw' = BwIdle
    /\ UNCHANGED pc

\* Tensor.masked_fill(input, mask, 0.0)
MaskedFill(input, mask) ==
    /\ pc = "idle" /\ input \in Held(tensors)
    /\ \E r \in {tensor_masked_fill(tensors, input, mask, 0)} :
          Built("masked_fill", <<input>>, r)

\* Tensor.replace(input, 1.0, 0.0)
Replace(input) ==
    /\ pc = "idle" /\ input \in Held(tensors)
    /\ \E r \in {tensor_replace(tensors, input, 1, 0)} : Built("replace", <<input>>, r)

\* Tensor.tril(input, diagonal)
Tril(input, diagonal) ==
    /\ pc = "idle" /\ input \in Held(tensors)
    /\ \E r \in {tensor_tril(tensors, input, diagonal)} : Built("tril", <<input>>, r)

\* x.reshape(1)
Flatten(x) ==
    /\ pc = "idle" /\ x \in Held(tensors)
    /\ \E r \in {tensor_reshape(tensors, x, <<1>>)} : Built("reshape", <<x>>, r)

\* no call has raised and no pass has run
Going == result.status = "ok" /\ NoGrads

NextMade ==
    \/ Going /\ \E input \in 1..Len(tensors) :
          \E mask \in Masks(Len(tensors[input].storage.data)) : MaskedFill(input, mask)
    \/ Going /\ \E input \in 1..Len(tensors) : Replace(input)
    \/ Going /\ \E input \in 1..Len(tensors), diagonal \in MadeDiagonals :
          Tril(input, diagonal)
    \/ Going /\ \E x, y \in 1..Len(tensors) : BinaryCall("Mul", x, y, MadeTensors)
    \/ Going /\ \E x \in 1..Len(tensors) : Flatten(x)
    \/ Going /\ \E root \in 1..Len(tensors) : BackwardBegin(root)
    \/ BackwardStep

SpecMade == InitMade /\ [][NextMade]_vars

\* ------------------------------------------------------------- properties
\* the elements of a buffer in row-major order, read through its strides
Values(buf) == add(buf, full_like(buf, 0)).data

\* backward() has returned normally
PassDone == pc = "idle" /\ result.call = "backward" /\ result.status = "ok"

\* the gradients the pass accepted for Tensor t, one per use of t as an
\* input of a walked operation
Contributions(t) == SelectSeq(bw.log, LAMBDA e : e.parent = t)

RECURSIVE SumOf(_, _)
SumOf(acc, entries) ==
    IF entries = <<>> THEN acc
    ELSE SumOf([i \in DOMAIN acc |-> acc[i] + Values(Head(entries).grad)[i]],
               Tail(entries))

\* what t.grad held on entry, as numbers: nothing counts as zeros
Before(t) ==
    IF bw.before[t] = NoneVal THEN [i \in 1..Prod(tshape(tensors, t)) |-> 0]
    ELSE Values(bw.before[t])

\* C1: after root.backward() has returned, the grad of every Tensor that
\* received two or more gradients during the pass (it feeds two or more
\* operations, or is both inputs of one) is what it held on entry -- nothing
\* in a fresh graph -- plus the sum of all of them; none is overwritten.
C1_GradIsSumOfContributions ==
    PassDone =>
        \A t \in 1..Len(tensors) :
            (/\ Len(Contributions(t)) >= 2
             /\ bw.before[t] # NoneVal => bw.before[t].shape = tshape(tensors, t))
            => /\ tensors[t].grad # NoneVal
               /\ tensors[t].grad.shape = tshape(tensors, t)
               /\ Values(tensors[t].grad) = SumOf(Before(t), Contributions(t))

\* a finished pass in which a Tensor with no grad on entry was both inputs of
\* one operation and an input of another
C1_Witness ==
    /\ PassDone
    /\ \E t \in 1..Len(tensors) :
          /\ bw.before[t] = NoneVal
          /\ Len(Contributions(t)) >= 3
          /\ \E i, j, k \in 1..Len(Contributions(t)) :
                /\ i < j /\ j < k
                /\ Contributions(t)[i].node # Contributions(t)[j].node
                /\ Contributions(t)[j].node = Contributions(t)[k].node

\* f.backward() has returned for d = a * b; f = d - c
ExprDone == Len(tensors) = ExprTensors /\ PassDone /\ bw.root = 5

\* the grad of Tensor t is the one-element Tensor holding v
GradIs(t, v) ==
    /\ tensors[t].grad # NoneVal
    /\ tensors[t].grad.shape = <<1>>
    /\ Values(tensors[t].grad) = <<v>>

\* C2: for scalar leaves a, b, c that require grad, d = a * b, f = d - c,
\* after f.backward(): a.grad = b's value, b.grad = a's value, c.grad = -1,
\* d.grad = 1 and f.grad = 1.
C2_ExprGrads ==
    ExprDone =>
        /\ GradIs(1, tensors[2].storage.data[1])
        /\ GradIs(2, tensors[1].storage.data[1])
        /\ GradIs(3, -1)
        /\ GradIs(4, 1)
        /\ GradIs(5, 1)

\* the pass has returned for a = 3, b = 17, c = 4
C2_Witness ==
    /\ ExprDone
    /\ tensors[1].storage.data = <<3>>
    /\ tensors[2].storage.data = <<17>>
    /\ tensors[3].storage.data = <<4>>
    /\ GradIs(1, 17) /\ GradIs(2, 3)

\* C3, as the specification states it: backward() on a Tensor of more than
\* one element fails with an assertion error and no grad, the root's
\* included, is written.
C3_NonScalarRootRejected ==
    (result.call = "backward" /\ Prod(tshape(tensors, bw.root)) > 1)
    => /\ result.status = "AssertionError"
       /\ Grads(tensors) = bw.before

\* the step is a call of root.backward()
BackwardCalled == pc = "idle" /\ result'.call = "backward"

\* C4, amended: once root.backward() has walked a graph of at least one
\* operation and returned, another root.backward() returns normally at once:
\* toposort finds nothing to walk, no backward rule runs, and the only grad
\* written is the root's, set to the seed again.
C4_SecondBackwardReturns ==
    [][(BackwardCalled /\ tensors[result'.args[1]].ran)
       => /\ pc' = "idle"
          /\ result'.status = "ok"
          /\ bw'.topo = <<>>
          /\ tensors' = [tensors EXCEPT ![result'.args[1]].grad = seed_grad]]_vars

\* a second backward() on a root that had a producing operation has returned
C4_Witness ==
    /\ PassDone
    /\ tensors[bw.root].ran
    /\ tensors[bw.root].origin = "apply"
    /\ bw.topo = <<>>

\* C4, as the specification states it: the second root.backward() fails.
C4_SecondBackwardFails ==
    [][(BackwardCalled /\ tensors[result'.args[1]].ran /\ bw' # bw)
       => result'.status \notin {"ok", "running"}]_vars

\* C5, as the specification states it: a grad that is not None has the shape
\* of the Tensor that owns it, the root's seed included.
C5_GradShapeIsOwnerShape ==
    \A t \in 1..Len(tensors) :
        tensors[t].grad # NoneVal => tensors[t].grad.shape = tshape(tensors, t)

\* C6: the output of Function.apply requires grad exactly when some input
\* does; it carries a producing Function exactly in that case (until a
\* backward pass has walked it and released it), and that Function's parents
\* are the inputs of the call, in order.
C6_ApplyOutput ==
    \A t \in 1..Len(tensors) :
        tensors[t].origin = "apply" =>
            /\ tensors[t].requires_grad
                   = (\E i \in 1..Len(tensors[t].inputs) :
                          tensors[tensors[t].inputs[i]].requires_grad)
            /\ tensors[t].ctx # NoneVal
                   => /\ tensors[t].requires_grad
                      /\ tensors[t].ctx.parents = tensors[t].inputs
            /\ (tensors[t].requires_grad /\ tensors[t].grad = NoneVal)
                   => tensors[t].ctx # NoneVal

\* an operation has just returned an output that requires grad because the
\* second of its two inputs does while the first does not
C6_Witness ==
    /\ result.call \in {"Add", "Mul"} /\ result.status = "ok"
    /\ tensors[result.ret].requires_grad
    /\ tensors[result.ret].ctx # NoneVal
    /\ tensors[result.ret].ctx.parents = result.args
    /\ ~tensors[result.args[1]].requires_grad
    /\ tensors[result.args[2]].requires_grad

\* C7: self.assign(x) succeeds only when x has self's shape and x does not
\* require grad; then self, the same object, holds x's storage object and
\* keeps its requires_grad, grad and producing Function.  Otherwise it fails
\* with an assertion error and self's storage, like everything else, is
\* unchanged.
C7_Assign ==
    [][result'.call = "assign" =>
         LET self == result'.args[1]
             x == result'.args[2]
         IN  IF tshape(tensors, self) = tshape(tensors, x) /\ ~tensors[x].requires_grad
             THEN /\ result'.status = "ok"
                  /\ result'.ret = self
                  /\ Len(tensors') = Len(tensors)
                  /\ tensors'[self].storage = tensors[x].storage
                  /\ tensors'[self].sid = tensors[x].sid
                  /\ tensors'[self].requires_grad = tensors[self].requires_grad
                  /\ tensors'[self].grad = tensors[self].grad
                  /\ tensors'[self].ctx = tensors[self].ctx
                  /\ \A t \in 1..Len(tensors) : t # self => tensors'[t] = tensors[t]
             ELSE /\ result'.status = "AssertionError"
                  /\ tensors' = tensors]_vars

\* an assign that succeeded on a target that requires grad and has a
\* producing Function, from another Tensor
C7_Witness ==
    /\ result.call = "assign" /\ result.status = "ok"
    /\ result.args[1] # result.args[2]
    /\ tensors[result.args[1]].requires_grad
    /\ tensors[result.args[1]].ctx # NoneVal
    /\ tensors[result.args[1]].sid = tensors[result.args[2]].sid
    /\ tensors[result.args[1]].sid # result.args[1]

\* C8: detach() returns a Tensor distinct from the original that holds the
\* same storage object, does not require grad, has no producing Function
\* and no grad; the original is unchanged.
C8_Detach ==
    [][result'.call = "detach" =>
         LET x == result'.args[1]
             d == result'.ret
         IN  /\ result'.status = "ok"
             /\ d # x
             /\ d = Len(tensors) + 1
             /\ Len(tensors') = d
             /\ SubSeq(tensors', 1, Len(tensors)) = tensors
             /\ tensors'[d].sid = tensors[x].sid
             /\ tensors'[d].storage = tensors[x].storage
             /\ ~tensors'[d].requires_grad
             /\ tensors'[d].ctx = NoneVal
             /\ tensors'[d].grad = NoneVal]_vars

\* a detach of a Tensor that requires grad, has a grad and came from an
\* operation
C8_Witness ==
    /\ result.call = "detach"
    /\ tensors[result.args[1]].requires_grad
    /\ tensors[result.args[1]].origin = "apply"
    /\ tensors[result.args[1]].grad # NoneVal
    /\ tensors[result.ret].sid = tensors[result.args[1]].sid

\* a shape padded on the left with 1s to rank n
PadLeft(s, n) == [i \in 1..n |-> IF i <= n - Len(s) THEN 1 ELSE s[i - (n - Len(s))]]

Larger(a, b) == IF a > b THEN a ELSE b

S1 == tshape(tensors, 1)
S2 == tshape(tensors, 2)
P1 == PadLeft(S1, Larger(Len(S1), Len(S2)))
P2 == PadLeft(S2, Larger(Len(S1), Len(S2)))

\* on every axis the padded sizes are equal or one of them is 1
Compatible == \A i \in 1..Len(P1) : P1[i] = P2[i] \/ P1[i] = 1 \/ P2[i] = 1

\* C9: for shapes S1 and S2 of rank 1 to 4 that are compatible (after
\* padding the shorter on the left with 1s, every axis has equal sizes or a
\* 1), _broadcasted returns two Tensors whose shape is the per-axis maximum
\* of the padded shapes; when S1 = S2 they are the two original objects.
C9_BroadcastShape ==
    (result.call = "_broadcasted" /\ Compatible) =>
        /\ result.status = "ok"
        /\ tshape(tensors, result.ret[1]) = [i \in 1..Len(P1) |-> Larger(P1[i], P2[i])]
        /\ tshape(tensors, result.ret[2]) = [i \in 1..Len(P1) |-> Larger(P1[i], P2[i])]
        /\ S1 = S2 => (result.ret = <<1, 2>> /\ Len(tensors) = 2)

\* _broadcasted has returned for shapes of different rank where each operand
\* is expanded on some axis
C9_Witness ==
    /\ result.call = "_broadcasted" /\ result.status = "ok"
    /\ Len(S1) < Len(S2)
    /\ \E i, j \in 1..Len(P1) :
          /\ P1[i] = 1 /\ P2[i] > 1
          /\ P2[j] = 1 /\ P1[j] > 1
    /\ tshape(tensors, result.ret[1]) = tshape(tensors, result.ret[2])

\* C10: when, after left-padding, some axis has sizes that differ with
\* neither equal to 1, _broadcasted and the binary operation built on it
\* fail with an assertion error and return no Tensor.
C10_IncompatibleFails ==
    (result.call \in {"_broadcasted", "Add"} /\ ~Compatible) =>
        /\ result.status = "AssertionError"
        /\ IF result.call = "Add" THEN result.ret = 0 ELSE result.ret = <<>>
        /\ Len(tensors) = 2

\* x + y has failed for shapes of different rank that clash on one axis
\* while another axis would have been expanded
C10_Witness ==
    /\ result.call = "Add" /\ result.status = "AssertionError"
    /\ Len(S1) # Len(S2)
    /\ \E i, j \in 1..Len(P1) :
          /\ P1[i] # P2[i] /\ P1[i] > 1 /\ P2[i] > 1
          /\ P1[j] = 1 /\ P2[j] > 1


\* the indices (0-based, one per axis) of a buffer of shape S
RECURSIVE IndicesOf(_)
IndicesOf(S) ==
    IF S = <<>> THEN {<<>>}
    ELSE {<<i>> \o rest : i \in 0..(Head(S) - 1), rest \in IndicesOf(Tail(S))}

\* the row-major position of index idx in shape S
RECURSIVE Offset(_, _, _, _)
Offset(idx, S, i, acc) ==
    IF i > Len(S) THEN acc ELSE Offset(idx, S, i + 1, acc * S[i] + idx[i])

\* the element of a contiguous buffer at index idx
At(buf, idx) == buf.data[Offset(idx, buf.shape, 1, 0) + 1]

\* strides as the specification defines them: the last is 1 and each other
\* is the next stride times the next size, i.e. the product of S[i+1:]
RowMajor(strides, S) ==
    /\ Len(strides) = Len(S)
    /\ strides[Len(S)] = 1
    /\ \A i \in 1..(Len(S) - 1) : strides[i] = strides[i + 1] * S[i + 1]

IsContiguous(buf) ==
    /\ Len(buf.data) = Prod(buf.shape)
    /\ RowMajor(buf.strides, buf.shape)

\* C12: for every shape S of rank 1 to 4 with positive sizes,
\* get_strides_from_shape(S) has the length of S, its last stride is 1 and
\* strides[i] is the product of S[i+1:].
C12_Strides ==
    result.call = "get_strides_from_shape" => RowMajor(result.ret, result.args[1])

\* the strides of a rank-4 shape with no size equal to 1 have been returned
C12_Witness ==
    /\ result.call = "get_strides_from_shape"
    /\ result.args[1] = <<2, 3, 2, 3>>
    /\ result.ret = <<18, 6, 3, 1>>

RECURSIVE AxisSum(_, _, _)
AxisSum(idx, axis, k) ==
    IF k >= X.shape[axis] THEN 0
    ELSE At(X, [idx EXCEPT ![axis] = k]) + AxisSum(idx, axis, k + 1)

\* C13: for every contiguous buffer of rank 1 to 4 and every axis, sum(axis)
\* returns a contiguous buffer whose shape is the input's with the summed
\* axis replaced by 1 and whose element at each index is the sum of the
\* input's elements along that axis.
C13_Sum ==
    result.call = "sum" =>
        /\ result.ret.shape = [X.shape EXCEPT ![result.args[1]] = 1]
        /\ IsContiguous(result.ret)
        /\ \A idx \in IndicesOf(result.ret.shape) :
              At(result.ret, idx) = AxisSum(idx, result.args[1], 0)

\* an all-ones (3, 2) buffer summed along its first axis gave (1, 2) filled
\* with 3
C13_Witness ==
    /\ result.call = "sum" /\ result.args = <<1>>
    /\ X.shape = <<3, 2>> /\ X.data = <<1, 1, 1, 1, 1, 1>>
    /\ result.ret.shape = <<1, 2>> /\ result.ret.data = <<3, 3>>

\* C14: for every contiguous buffer with size 1 on the chosen axis,
\* expand(axis, n) returns a buffer whose element at any index is the input's
\* element at that index with the expanded axis set to 0; so [a, b, c] as
\* (1, 3) expanded to (2, 3) is [a, b, c, a, b, c] and as (3, 1) expanded to
\* (3, 2) is [a, a, b, b, c, c].
C14_Expand ==
    result.call = "expand" =>
        /\ result.ret.shape = [X.shape EXCEPT ![result.args[1]] = result.args[2]]
        /\ IsContiguous(result.ret)
        /\ \A idx \in IndicesOf(result.ret.shape) :
              At(result.ret, idx) = At(X, [idx EXCEPT ![result.args[1]] = 0])
        /\ (X.shape = <<1, 3>> /\ result.args = <<1, 2>>)
              => result.ret.data = X.data \o X.data
        /\ (X.shape = <<3, 1>> /\ result.args = <<2, 2>>)
              => result.ret.data = <<X.data[1], X.data[1], X.data[2],
                                     X.data[2], X.data[3], X.data[3]>>

\* [1, 2, 3] of shape (3, 1) has been expanded to (3, 2)
C14_Witness ==
    /\ result.call = "expand" /\ result.args = <<2, 2>>
    /\ X.shape = <<3, 1>> /\ X.data = <<1, 2, 3>>
    /\ result.ret.data = <<1, 1, 2, 2, 3, 3>>

\* the index of X read for index j of permute(order)(X)
SourceIndex(j, order) ==
    [a \in 1..Len(order) |-> j[CHOOSE i \in 1..Len(order) : order[i] = a]]

\* C15: for every contiguous buffer X of rank 1 to 4 and every permutation
\* `order' of its axes, permute(order) returns a contiguous buffer with
\* shape[i] = X.shape[order[i]] whose element at index j is the element of X
\* whose index on axis order[i] is j[i]; for the identity order it has the
\* shape and the elements of X.
C15_Permute ==
    result.call = "permute" =>
        LET order == result.args[1]
        IN  /\ result.ret.shape = [i \in 1..Len(order) |-> X.shape[order[i]]]
            /\ IsContiguous(result.ret)
            /\ \A j \in IndicesOf(result.ret.shape) :
                  At(result.ret, j) = At(X, SourceIndex(j, order))
            /\ order = [i \in 1..Len(order) |-> i]
                  => (result.ret.shape = X.shape /\ result.ret.data = X.data)

\* a (1, 2, 3) buffer holding 1..6 has been permuted by the cyclic order
\* (2, 0, 1) of the code's 0-based axes
C15_Witness ==
    /\ result.call = "permute" /\ result.args = <<(<<3, 1, 2>>)>>
    /\ X.shape = <<1, 2, 3>> /\ X.data = <<1, 2, 3, 4, 5, 6>>
    /\ result.ret.shape = <<3, 1, 2>>
    /\ result.ret.data = <<1, 4, 2, 5, 3, 6>>

\* the trailing two axes of shape S are square
TrailingSquare(S) == Len(S) >= 2 /\ S[Len(S)] = S[Len(S) - 1]

\* C16: for a contiguous buffer whose trailing two axes are square, tril
\* with diagonal d keeps the element at row i, column j exactly when
\* j <= i + d and sets every other element to 0, in each leading block.
C16_Tril ==
    (result.call = "tril" /\ TrailingSquare(X.shape)) =>
        /\ result.ret.shape = X.shape
        /\ IsContiguous(result.ret)
        /\ \A idx \in IndicesOf(X.shape) :
              At(result.ret, idx)
                 = IF idx[Len(idx)] <= idx[Len(idx) - 1] + result.args[1]
                   THEN At(X, idx) ELSE 0

\* tril with diagonal 0 of two all-ones (3, 3) blocks
C16_Witness ==
    /\ result.call = "tril" /\ result.args = <<0>>
    /\ X.shape = <<2, 3, 3>> /\ X.data = [i \in 1..18 |-> 1]
    /\ result.ret.data = <<1, 0, 0, 1, 1, 0, 1, 1, 1, 1, 0, 0, 1, 1, 0, 1, 1, 1>>

\* C17, as the specification states it: for two buffers of the same shape,
\* is_equal_to never raises and returns true exactly when every pair of
\* corresponding elements is equal.
C17_IsEqualTo ==
    result.call = "is_equal_to" =>
        /\ result.status = "ok"
        /\ result.ret = (X.data = result.args[1].data)

\* ------------------------------------------------------------------ matmul
\* the leading (batch) axes of a matrix shape
Lead(s) == SubSeq(s, 1, Len(s) - 2)

LeadRank == Larger(Len(Lead(S1)), Len(Lead(S2)))
L1 == PadLeft(Lead(S1), LeadRank)
L2 == PadLeft(Lead(S2), LeadRank)
LeadCompatible == \A i \in 1..LeadRank : L1[i] = L2[i] \/ L1[i] = 1 \/ L2[i] = 1
Batch == [i \in 1..LeadRank |-> Larger(L1[i], L2[i])]

\* x of shape [..., m, k] and y of shape [..., k, n], of rank 2 to 4, with
\* broadcast-compatible leading axes
MatmulOperands ==
    /\ Len(S1) \in 2..MaxRank /\ Len(S2) \in 2..MaxRank
    /\ S1[Len(S1)] = S2[Len(S2) - 1]
    /\ LeadCompatible

\* the index into an operand of shape S that the output index idx
\* broadcasts from, with the given row and column
OperandIndex(idx, S, row, col) ==
    [a \in 1..Len(S) |->
        IF a = Len(S) - 1 THEN row
        ELSE IF a = Len(S) THEN col
        ELSE IF S[a] = 1 THEN 0
        ELSE idx[a + LeadRank - (Len(S) - 2)]]

\* the sum over t >= t0 of x[.., i, t] * y[.., t, j]
RECURSIVE Dot(_, _)
Dot(idx, t) ==
    IF t >= S1[Len(S1)] THEN 0
    ELSE At(tensors[1].storage, OperandIndex(idx, S1, idx[LeadRank + 1], t))
            * At(tensors[2].storage, OperandIndex(idx, S2, t, idx[LeadRank + 2]))
         + Dot(idx, t + 1)

MatmulIsProduct ==
    /\ result.status = "ok"
    /\ tshape(tensors, result.ret) =
          Batch \o <<S1[Len(S1) - 1], S2[Len(S2)]>>
    /\ IsContiguous(tensors[result.ret].storage)
    /\ \A idx \in IndicesOf(tshape(tensors, result.ret)) :
          At(tensors[result.ret].storage, idx) = Dot(idx, 0)

MatmulRejected ==
    /\ result.status = "AssertionError"
    /\ Len(tensors) = 2

\* C11: for x of shape [..., m, k] and y of shape [..., k, n], each of rank
\* 2 to 4 with broadcast-compatible leading axes, x.matmul(y) succeeds and
\* returns a Tensor of shape [batch..., m, n] whose element [.., i, j] is the
\* sum over t of x[.., i, t] * y[.., t, j]; an operand of rank below 2, or
\* x.shape[-1] # y.shape[-2], is rejected with an assertion.
C11_Matmul ==
    result.call = "matmul" =>
        /\ (Len(S1) < 2 \/ Len(S2) < 2) => MatmulRejected
        /\ (Len(S1) >= 2 /\ Len(S2) >= 2 /\ S1[Len(S1)] # S2[Len(S2) - 1])
              => MatmulRejected
        /\ MatmulOperands => MatmulIsProduct

\* the same for operands of rank 2 and 3, which matmul can lift by one axis
C11_MatmulUpToRank3 ==
    (result.call = "matmul" /\ Len(S1) <= 3 /\ Len(S2) <= 3) => C11_Matmul

\* ---------------------------------------------------------------- toposort
\* the parent links of node: those its producing Function recorded
ParentsOf(h, node) ==
    IF h[node].ctx = NoneVal THEN {}
    ELSE {h[node].ctx.parents[i] : i \in 1..Len(h[node].ctx.parents)}

\* node and everything reachable from it through parent links
RECURSIVE Reachable(_, _)
Reachable(h, node) ==
    {node} \cup UNION {Reachable(h, p) : p \in ParentsOf(h, node)}

HasProducer(h, node) == h[node].ctx # NoneVal

\* what a node was computed from: its parents and their ancestors
Ancestors(h, node) == UNION {Reachable(h, p) : p \in ParentsOf(h, node)}

PositionsOf(list, node) == {i \in 1..Len(list) : list[i] = node}

\* C18: the list returned by toposort places each node after every node it
\* was computed from (its parents and their ancestors that have a producing
\* operation), so the reversed list visits each node before its inputs.
C18_ParentsFirst ==
    result.call = "toposort" =>
        \A i \in 1..Len(result.ret) :
            \A a \in Ancestors(tensors, result.ret[i]) :
                HasProducer(tensors, a) =>
                    /\ PositionsOf(result.ret, a) # {}
                    /\ \A j \in PositionsOf(result.ret, a) : j < i

\* toposort returned a list in which a node that is the parent of two others
\* comes first: a, b = a * a, c = a * b
C18_Witness ==
    /\ result.call = "toposort"
    /\ Len(result.ret) = 3
    /\ result.ret[1] \in ParentsOf(tensors, result.ret[2])
    /\ ParentsOf(tensors, result.ret[3]) = {result.ret[1], result.ret[2]}

\* C19: the list returned by toposort contains exactly the Tensors reachable
\* from the root through parent links that have a producing operation, each
\* exactly once; a Tensor without a producing operation is never in it; and
\* toposort returns a list for every Tensor of every graph.
C19_ExactlyReachable ==
    /\ result.call = "toposort" =>
          /\ {result.ret[i] : i \in 1..Len(result.ret)} =
                {n \in Reachable(tensors, result.args[1]) : HasProducer(tensors, n)}
          /\ \A i, j \in 1..Len(result.ret) : result.ret[i] = result.ret[j] => i = j
          /\ \A i \in 1..Len(result.ret) : HasProducer(tensors, result.ret[i])
    /\ pc = "idle" =>
          \A root \in Held(tensors) :
              toposort(tensors, root) \in Seq(1..Len(tensors))

\* toposort of a root that reaches a non-leaf along two paths and a leaf:
\* the non-leaf is listed once and the leaf is not listed
C19_Witness ==
    /\ result.call = "toposort"
    /\ Len(result.ret) = 3
    /\ \E a \in Reachable(tensors, result.args[1]) : ~HasProducer(tensors, a)
    /\ \E a \in ParentsOf(tensors, result.args[1]) :
          \E b \in ParentsOf(tensors, result.args[1]) :
              a # b /\ a \in ParentsOf(tensors, b)

\* C20: whenever backward takes a node from the reversed topological order
\* its grad is already present, so `assert node.grad is not None' does not
\* fail.
C20_GradPresent ==
    pc = "backward" => tensors[Head(bw.order)].grad # NoneVal

\* backward is about to take a node other than the root, one that is the
\* parent of two nodes processed before it, and its grad is present
C20_Witness ==
    /\ pc = "backward"
    /\ Head(bw.order) # bw.root
    /\ Cardinality({n \in 1..Len(tensors) :
                       /\ Head(bw.order) \in {tensors[n].inputs[i] : i \in 1..Len(tensors[n].inputs)}
                       /\ n \in {bw.topo[i] : i \in 1..Len(bw.topo)}}) = 2
    /\ tensors[Head(bw.order)].grad # NoneVal

\* ------------------------------------------------- the pass, node by node
\* the nodes of the topological order the loop has not taken yet
Remaining == {bw.order[j] : j \in 1..Len(bw.order)}

InOrder == {bw.topo[i] : i \in 1..Len(bw.topo)}

\* the positions of the log at which node handed a gradient to a parent
Handed(node) == {k \in 1..Len(bw.log) : bw.log[k].node = node}

\* the uses of a Tensor that requires grad as an input of node
GradInputs(node) ==
    {i \in 1..Len(tensors[node].inputs) :
        tensors[tensors[node].inputs[i]].requires_grad}

\* C21: every Tensor of the topological order has its producing-operation
\* reference released right after its gradients were accumulated into its
\* parents and before the next node is processed -- a node the loop has
\* passed is released and has handed over all its gradients, a node it has
\* not reached yet still has its reference and has handed over none -- so
\* that every node is released when backward() returns normally.
C21_ReleasedInOrder ==
    \A n \in InOrder :
        IF n \in Remaining
        THEN HasProducer(tensors, n) /\ Handed(n) = {}
        ELSE /\ ~HasProducer(tensors, n)
             /\ Cardinality(Handed(n)) = Cardinality(GradInputs(n))

\* backward() returned normally after walking a root and two more non-leaves
C21_Witness ==
    /\ PassDone
    /\ Len(bw.topo) = 3
    /\ \A n \in InOrder : ~HasProducer(tensors, n) /\ Handed(n) # {}

\* the node the loop of backward is about to take, and what its rule returns
Node == Head(bw.order)
Rule == backward_rule(tensors[Node].ctx, tensors[Node].grad)

\* the parents of Node that require grad and for which the rule returned a
\* gradient of another shape than theirs
Mismatched ==
    {i \in 1..Len(tensors[Node].ctx.parents) :
        /\ tensors[tensors[Node].ctx.parents[i]].requires_grad
        /\ Rule.grads[i] # NoneVal
        /\ Rule.grads[i].shape # tshape(tensors, tensors[Node].ctx.parents[i])}

FirstMismatched == CHOOSE i \in Mismatched : \A k \in Mismatched : i <= k

\* C22: if the backward rule of a node returns, for a parent that requires
\* grad, a gradient whose shape differs from the parent's, the pass aborts
\* with an assertion failure at that parent, and the gradient is neither
\* broadcast nor accumulated into the parent's grad.
C22_MismatchAborts ==
    [][(pc = "backward" /\ tensors[Node].grad # NoneVal /\ Rule.ok
        /\ Mismatched # {})
       => /\ pc' = "idle"
          /\ result' = Result("backward", "AssertionError", <<bw.root>>, 0)
          /\ \A i \in Mismatched :
                (\A k \in 1..(FirstMismatched - 1) :
                    tensors[Node].ctx.parents[k] # tensors[Node].ctx.parents[i])
                => tensors'[tensors[Node].ctx.parents[i]].grad =
                      tensors[tensors[Node].ctx.parents[i]].grad]_vars

\* a pass has aborted at a parent of shape [2] that was handed a gradient of
\* shape [1]
C22_Witness ==
    /\ pc = "idle"
    /\ result = Result("backward", "AssertionError", <<bw.root>>, 0)
    /\ bw.order # <<>>
    /\ Rule.ok
    /\ Mismatched # {}
    /\ \A i \in Mismatched : tensors[tensors[Node].ctx.parents[i]].grad = NoneVal

\* ------------------------------------------------------- strided operands
\* the element of a buffer at a logical index, located through its strides
RECURSIVE StridedOffset(_, _, _)
StridedOffset(idx, strides, i) ==
    IF i > Len(idx) THEN 0
    ELSE idx[i] * strides[i] + StridedOffset(idx, strides, i + 1)

AtStrided(buf, idx) == buf.data[StridedOffset(idx, buf.strides, 1) + 1]

Applied(call, a, b) ==
    CASE call = "add" -> a + b
      [] call = "sub" -> a - b
      [] call = "mul" -> a * b

\* C23: for two buffers of the same shape of rank 1 to 4, either of which
\* may be non-contiguous, an elementwise binary operation returns a buffer
\* of the operand shape with row-major strides whose element at every
\* logical index is the operation applied to the operands' elements at that
\* index, each located through its own strides.
C23_BinaryOnStrided ==
    result.call \in {"add", "sub", "mul"} =>
        /\ result.ret.shape = X.shape
        /\ IsContiguous(result.ret)
        /\ \A idx \in IndicesOf(X.shape) :
              At(result.ret, idx) =
                  Applied(result.call, AtStrided(X, idx), AtStrided(Y, idx))

\* x - y was computed for a transposed x and a contiguous y of shape (2, 2):
\* x reads 1, 3, 2, 4 and y reads 10, 20, 30, 40
C23_Witness ==
    /\ result.call = "sub"
    /\ X = MiniBufferS(<<1, 2, 3, 4>>, <<2, 2>>, <<1, 2>>)
    /\ Y = MiniBufferS(<<10, 20, 30, 40>>, <<2, 2>>, <<2, 1>>)
    /\ result.ret = MiniBufferS(<<-9, -17, -28, -36>>, <<2, 2>>, <<2, 1>>)

\* -------------------------------------------------------------------- pad
InRange(idx, S) == \A i \in 1..Len(S) : idx[i] < S[i]

\* C24: for every contiguous buffer of rank 1 to 4 and every new_shape of
\* the same rank that is nowhere smaller, pad(new_shape) returns a buffer of
\* shape new_shape whose element at an index is the input's element at that
\* index when the index is within the input's range on every axis, and 0
\* otherwise -- also when a middle axis grows, as from (2,2,2) to (2,3,2).
C24_Pad ==
    result.call = "pad" =>
        /\ result.ret.shape = result.args[1]
        /\ IsContiguous(result.ret)
        /\ \A idx \in IndicesOf(result.ret.shape) :
              At(result.ret, idx) = IF InRange(idx, X.shape) THEN At(X, idx) ELSE 0

\* the same when only the first or the last axis grows
C24_PadOuterAxes ==
    (result.call = "pad"
     /\ \A i \in 2..(Len(X.shape) - 1) : result.args[1][i] = X.shape[i])
    => C24_Pad

\* ------------------------------------------------------------ contiguity
\* C25: every buffer returned by permute, expand and sum, applied to
\* contiguous inputs in any sequence, is contiguous: its strides are
\* get_strides_from_shape of its shape and its data has as many elements
\* as the product of its shape.
C25_AlwaysContiguous ==
    /\ X.strides = get_strides_from_shape(X.shape)
    /\ Len(X.data) = Prod(X.shape)
    /\ result.call # "none" => result.ret = X

\* a buffer was expanded after it had been permuted: the second call worked
\* on what the first returned
C25_Witness ==
    /\ tensors[1].sid = 2
    /\ result.call = "expand"
    /\ X.shape = <<2, 2>>
    /\ X.data = <<1, 1, 2, 2>>
    /\ X.strides = <<2, 1>>

\* ------------------------------------------------ one rule call per node
\* the positions of the log at which node was handed a gradient
Received(node) == {k \in 1..Len(bw.log) : bw.log[k].parent = node}

\* the uses of node as an input of a node of the topological order: its
\* consumers that are reachable from the root
Uses(node) ==
    {<<c, i>> \in InOrder \X (1..2) :
        i <= Len(tensors[c].inputs) /\ tensors[c].inputs[i] = node}

\* the loop is about to call the backward rule of node
AboutToRun(node) == pc = "backward" /\ node = Head(bw.order)

\* C26: within one backward() pass the backward rule of each non-leaf node
\* is invoked exactly once; when it is invoked the node's grad holds the
\* contribution of every consumer of the node that is reachable from the
\* root; and no contribution is added to the node's grad after its rule ran.
C26_OncePerPass ==
    \A n \in InOrder :
        /\ Cardinality(Handed(n)) =
              IF n \in Remaining THEN 0 ELSE Cardinality(GradInputs(n))
        /\ Cardinality(PositionsOf(bw.topo, n)) = 1
        /\ (AboutToRun(n) \/ n \notin Remaining) =>
              /\ Cardinality(Received(n)) = Cardinality(Uses(n))
              /\ tensors[n].grad # NoneVal
        /\ \A k \in Received(n), j \in Handed(n) : k < j

\* the rule of a node with two consumers is about to run and the node has
\* received the gradients of both
C26_Witness ==
    /\ pc = "backward"
    /\ Cardinality({bw.log[k].node : k \in Received(Head(bw.order))}) = 2
    /\ Cardinality(Received(Head(bw.order))) = Cardinality(Uses(Head(bw.order)))

\* --------------------------------------------------------- released nodes
InputsOf(t) == {tensors[t].inputs[i] : i \in 1..Len(tensors[t].inputs)}

\* d is a non-leaf whose producing operation was released before the pass
\* in progress (or last finished) began, and a node of that pass uses it
ReleasedEarlier(d) ==
    /\ tensors[d].origin = "apply"
    /\ tensors[d].requires_grad
    /\ tensors[d].ctx = NoneVal
    /\ d \notin InOrder \ Remaining
    /\ Uses(d) # {}

\* t.grad is what it was on entry plus what the pass has handed to t
GradIsEntryPlusReceived(t) ==
    IF Contributions(t) = <<>> THEN tensors[t].grad = bw.before[t]
    ELSE Values(tensors[t].grad) = SumOf(Before(t), Contributions(t))

Separate(r1, r2) ==
    /\ r1 # r2
    /\ r1 \notin Reachable(tensors, r2)
    /\ r2 \notin Reachable(tensors, r1)

\* C28: backward() never resets a grad other than the root's.  From the
\* seeding of the root to the return of the call, whatever passes ran before
\* on the same or on other graphs, the root's grad is the seed 1.0, replacing
\* what it held on entry, and the grad of every other Tensor is what it held
\* on entry plus the gradients this pass has handed it so far; so a leaf
\* shared by two separately built roots ends with the sum of its gradients
\* from the two passes.
C28_NeverResets ==
    (result.call = "backward" /\ result.status \in {"running", "ok"}) =>
        /\ tensors[bw.root].grad = seed_grad
        /\ \A t \in 1..Len(tensors) \ {bw.root} : GradIsEntryPlusReceived(t)

\* backward() has returned for the second of two separately built roots that
\* share a leaf requiring a gradient: the leaf entered the pass with the
\* gradient of the first pass and holds more now, and each root holds the seed
C28_Witness ==
    /\ PassDone
    /\ \E r1 \in 1..Len(tensors), a \in InputsOf(bw.root) :
          /\ Separate(r1, bw.root)
          /\ tensors[r1].ran /\ tensors[bw.root].ran
          /\ a \in InputsOf(r1)
          /\ tensors[a].origin = "new" /\ tensors[a].requires_grad
          /\ bw.before[a] # NoneVal
          /\ Contributions(a) # <<>>
          /\ Values(tensors[a].grad) = SumOf(Values(bw.before[a]), Contributions(a))
          /\ Values(tensors[a].grad) # Values(bw.before[a])
          /\ tensors[r1].grad = seed_grad
          /\ tensors[bw.root].grad = seed_grad

\* backward() has returned for a root that already held a grad on entry
C28_RootCalledAgain ==
    /\ PassDone
    /\ bw.before[bw.root] # NoneVal
    /\ tensors[bw.root].grad = seed_grad

\* ---------------------------------------------------------------- C29
\* the in-place operator of the step, its target and its operand
IOp == result'.call
ISelf == result'.args[1]
IOther == result'.args[2]

\* what the operator computes from the state before the step
Computed == replacement(tensors, IOp, ISelf, IOther)

\* r, computed by the operator, has the shape of the target
KeepsShape(r) == tshape(r.h, r.ret) = tshape(tensors, ISelf)

\* the step changed nothing of the target but its storage, which is now that
\* of the replacement r and a new object, and nothing of any other Tensor
OnlyStorageReplaced(r) ==
    /\ Len(tensors') = Len(tensors)
    /\ \A t \in 1..Len(tensors) : t # ISelf => tensors'[t] = tensors[t]
    /\ tensors'[ISelf].storage = r.h[r.ret].storage
    /\ tensors'[ISelf].sid \notin {tensors[t].sid : t \in 1..Len(tensors)}
    /\ [tensors'[ISelf] EXCEPT !.storage = 0, !.sid = 0]
         = [tensors[ISelf] EXCEPT !.storage = 0, !.sid = 0]

\* the step is an in-place operator failing as it must on a target that
\* requires a gradient; r is what the operator computed, r.ok when it
\* accepted the operand
FailsOnRequiresGrad(r) ==
    tensors[ISelf].requires_grad =>
        /\ result'.status = "AssertionError"
        /\ tensors' = tensors
        /\ r.ok => r.h[r.ret].requires_grad /\ ~assign_ok(r.h, ISelf, r.ret)

\* the step is an in-place operator succeeding as it must when neither the
\* target nor the operand requires a gradient and the shape is kept
SucceedsOtherwise(r) ==
    (/\ ~tensors[ISelf].requires_grad
     /\ ~tensors[IOther].requires_grad
     /\ r.ok /\ KeepsShape(r)) =>
        /\ result'.status = "ok"
        /\ result'.ret = ISelf
        /\ OnlyStorageReplaced(r)

\* C29: every in-place operator (+=, -=, *=, /=, **=, @=) applied to a Tensor
\* that requires a gradient fails with an AssertionError and leaves every
\* Tensor -- storage, grad and producing operation -- as it was; whenever the
\* operator computed a replacement, that replacement requires a gradient and
\* it is assign that rejects it.  Applied to a Tensor that requires none,
\* with an operand that requires none and a replacement of the same shape,
\* the operator succeeds and returns the same Tensor, of which only the
\* storage has changed.
C29_InPlace ==
    [][(IOp \in InPlaceOps) =>
          (\A r \in {Computed} : FailsOnRequiresGrad(r) /\ SucceedsOtherwise(r))]_vars

\* an in-place operator has just failed on a Tensor that requires a gradient
\* and holds both a grad and a producing operation, with an operand the
\* operator accepts and that keeps the shape
C29_Witness ==
    /\ result.call \in InPlaceOps /\ result.status = "AssertionError"
    /\ \E r \in {replacement(tensors, result.call, result.args[1], result.args[2])} :
          /\ r.ok
          /\ tshape(r.h, r.ret) = tshape(tensors, result.args[1])
          /\ r.h[r.ret].requires_grad
    /\ tensors[result.args[1]].requires_grad
    /\ tensors[result.args[1]].grad # NoneVal
    /\ tensors[result.args[1]].ctx # NoneVal

\* the in-place operator iop has just failed on a Tensor that requires a
\* gradient, rejected by assign
FailedInAssign(iop) ==
    /\ result.call = iop /\ result.status = "AssertionError"
    /\ tensors[result.args[1]].requires_grad
    /\ replacement(tensors, iop, result.args[1], result.args[2]).ok

\* the in-place operator iop has just succeeded
Succeeded(iop) ==
    /\ result.call = iop /\ result.status = "ok"
    /\ result.ret = result.args[1]
    /\ tensors[result.ret].sid > Len(tensors)

\* ---------------------------------------------------------------- C30
\* the Tensors masked_fill, replace and tril returned, and what each was
\* made from
MadeOrigins == {"masked_fill", "replace", "tril"}
Made == {m \in 1..Len(tensors) : tensors[m].origin \in MadeOrigins}
SourceOf(m) == tensors[m].inputs[1]

MadeWalked(origin) ==
    /\ PassDone
    /\ \E m \in Made :
          /\ tensors[m].origin = origin
          /\ m \in InputsOf(bw.root)
          /\ tensors[bw.root].origin = "apply"
          /\ tensors[SourceOf(m)].requires_grad /\ tensors[m].requires_grad
          /\ Uses(SourceOf(m)) = {}
          /\ tensors[m].grad # NoneVal
          /\ tensors[SourceOf(m)].grad = NoneVal
          /\ bw.before[SourceOf(m)] = NoneVal

====
